---- MODULE Spec2Model ----
(***************************************************************************)
(* A model of the data engine of src/src/App.jsx: the type classifier,     *)
(* the transactions/cards/card_programs join, the filter/sort pipeline    *)
(* and the React state the handlers write.                                 *)
(*                                                                         *)
(* JavaScript strings are sequences of one-character strings, so that      *)
(* String(), toLowerCase(), includes(), parseFloat() and "<" are computed  *)
(* character by character.  JavaScript values are tagged records; numbers  *)
(* are integers.  Objects are ordered key/value lists, so Object.keys and  *)
(* the spread operator keep the insertion order the code relies on.        *)
(***************************************************************************)
EXTENDS Integers, Sequences, FiniteSets, TLC

VARIABLES
  tables, activeTable, columns, columnTypes, filters, selectedCategory,
  sortConfig, activeView, parseLog, calculatedColumns, sqlPasteInput,
  selectedMonth, groupByColumn, aggregationType, topN, drilldown,
  dashboardSort, urlInput, isLoading, loadError,
  joinStats, pendingReads, fetches, download, steps

(* tables .. drilldown are the useState cells of the component.  joinStats   *)
(* keeps the counters of the last join (matchedCards, matchedPrograms and    *)
(* unmatchedCardIds are locals of processContent, visible only through the   *)
(* log).  pendingReads holds the files whose read or parse has been started  *)
(* and has not completed, fetches the URL requests that have been sent and   *)
(* not answered, download the text of the last export handed to the         *)
(* browser.  steps counts the events of a run.                               *)
(*                                                                           *)
(* Dates are the ISO days YYYY-MM-DD, read as calendar days; column and      *)
(* table names are the ones listed in NameChars and TableNames.              *)

vars == <<tables, activeTable, columns, columnTypes, filters, selectedCategory,
          sortConfig, activeView, parseLog, calculatedColumns, sqlPasteInput,
          selectedMonth, groupByColumn, aggregationType, topN, drilldown,
          dashboardSort, urlInput, isLoading, loadError,
          joinStats, pendingReads, fetches, download, steps>>

-----------------------------------------------------------------------------
(* Characters and strings                                                  *)

\* The characters of the model in UTF-16 code-unit order.
Ascii ==
  <<" ", "#", "$", ",", "-", ".",
    "0", "1", "2", "3", "4", "5", "6", "7", "8", "9",
    "A", "B", "C", "D", "E", "F", "G", "H", "I", "J", "K", "L", "M",
    "N", "O", "P", "Q", "R", "S", "T", "U", "V", "W", "X", "Y", "Z",
    "_",
    "a", "b", "c", "d", "e", "f", "g", "h", "i", "j", "k", "l", "m",
    "n", "o", "p", "q", "r", "s", "t", "u", "v", "w", "x", "y", "z">>

CharSet == {Ascii[i] : i \in 1..Len(Ascii)}

CharCode[c \in CharSet] == CHOOSE i \in 1..Len(Ascii) : Ascii[i] = c

UpperChars == <<"A", "B", "C", "D", "E", "F", "G", "H", "I", "J", "K", "L", "M",
                "N", "O", "P", "Q", "R", "S", "T", "U", "V", "W", "X", "Y", "Z">>
LowerChars == <<"a", "b", "c", "d", "e", "f", "g", "h", "i", "j", "k", "l", "m",
                "n", "o", "p", "q", "r", "s", "t", "u", "v", "w", "x", "y", "z">>
DigitChars == <<"0", "1", "2", "3", "4", "5", "6", "7", "8", "9">>

IsDigit(c) == \E i \in 1..10 : DigitChars[i] = c
DigitVal(c) == (CHOOSE i \in 1..10 : DigitChars[i] = c) - 1

LowerChar(c) ==
  IF \E i \in 1..26 : UpperChars[i] = c
  THEN LowerChars[CHOOSE i \in 1..26 : UpperChars[i] = c]
  ELSE c

\* String.prototype.toLowerCase
toLowerCase(s) == [i \in 1..Len(s) |-> LowerChar(s[i])]

\* String.prototype.includes
includes(s, sub) ==
  \E i \in 0..(Len(s) - Len(sub)) : SubSeq(s, i + 1, i + Len(sub)) = sub

\* a < b on two strings: code-unit lexicographic order
StrLess(a, b) ==
  \E i \in 1..(Len(b)) :
    /\ \A j \in 1..(i - 1) : j <= Len(a) /\ a[j] = b[j]
    /\ \/ i = Len(a) + 1
       \/ i <= Len(a) /\ CharCode[a[i]] < CharCode[b[i]]

\* String.prototype.trim (the only white space of the model is the space)
RECURSIVE TrimLeft(_)
TrimLeft(s) == IF s # <<>> /\ Head(s) = " " THEN TrimLeft(Tail(s)) ELSE s
RECURSIVE TrimRight(_)
TrimRight(s) ==
  IF s # <<>> /\ s[Len(s)] = " " THEN TrimRight(SubSeq(s, 1, Len(s) - 1)) ELSE s
trim(s) == TrimRight(TrimLeft(s))

\* s.replace(/[$,€£¥]/g, ''): of the class only "$" and "," are characters
\* of the model
StripCurrency(s) == SelectSeq(s, LAMBDA c : c \notin {"$", ","})

\* String(n) for an integer n
RECURSIVE NatToStr(_)
NatToStr(n) ==
  IF n < 10 THEN <<DigitChars[n + 1]>>
  ELSE NatToStr(n \div 10) \o <<DigitChars[(n % 10) + 1]>>
IntToStr(n) == IF n < 0 THEN <<"-">> \o NatToStr(0 - n) ELSE NatToStr(n)

\* The value of a run of digits
RECURSIVE DigitsVal(_)
DigitsVal(s) ==
  IF s = <<>> THEN 0 ELSE 10 * DigitsVal(SubSeq(s, 1, Len(s) - 1)) + DigitVal(s[Len(s)])

\* The longest prefix of s made of digits
RECURSIVE DigitPrefix(_)
DigitPrefix(s) ==
  IF s # <<>> /\ IsDigit(Head(s)) THEN <<Head(s)>> \o DigitPrefix(Tail(s)) ELSE <<>>

\* parseFloat on a string: leading white space skipped, an optional sign, the
\* longest run of digits; NaN when there is no digit.  (Numbers are integers:
\* no string of the model holds a fraction or an exponent.)
SignedDigits(neg, ds) ==
  IF ds = <<>> THEN [nan |-> TRUE, n |-> 0]
  ELSE [nan |-> FALSE, n |-> IF neg THEN 0 - DigitsVal(ds) ELSE DigitsVal(ds)]

ParseTrimmed(t) ==
  IF t # <<>> /\ Head(t) = "-" THEN SignedDigits(TRUE, DigitPrefix(Tail(t)))
  ELSE SignedDigits(FALSE, DigitPrefix(t))

parseFloatStr(s) == ParseTrimmed(TrimLeft(s))

\* Number(s) on a string: the whole trimmed string must be a number; '' is 0
AllDigits(neg, body) ==
  IF body # <<>> /\ \A i \in 1..Len(body) : IsDigit(body[i])
  THEN SignedDigits(neg, body)
  ELSE [nan |-> TRUE, n |-> 0]

NumberTrimmed(t) ==
  IF t = <<>> THEN [nan |-> FALSE, n |-> 0]
  ELSE IF Head(t) = "-" THEN AllDigits(TRUE, Tail(t))
  ELSE AllDigits(FALSE, t)

NumberStr(s) == NumberTrimmed(trim(s))

-----------------------------------------------------------------------------
(* JavaScript values                                                       *)

Num(n) == [t |-> "number", n |-> n, s |-> <<>>]
Str(s) == [t |-> "string", n |-> 0, s |-> s]
Null == [t |-> "null", n |-> 0, s |-> <<>>]
Undefined == [t |-> "undefined", n |-> 0, s |-> <<>>]

IsNullish(v) == v.t \in {"null", "undefined"}

\* String(v)
String(v) ==
  CASE v.t = "number" -> IntToStr(v.n)
    [] v.t = "string" -> v.s
    [] v.t = "null" -> <<"n", "u", "l", "l">>
    [] OTHER -> <<"u", "n", "d", "e", "f", "i", "n", "e", "d">>

\* ToBoolean(v)
Truthy(v) ==
  CASE v.t = "number" -> v.n # 0
    [] v.t = "string" -> v.s # <<>>
    [] OTHER -> FALSE

\* a || b
OrElse(a, b) == IF Truthy(a) THEN a ELSE b

\* parseFloat(v): the argument is converted to a string first
parseFloat(v) == parseFloatStr(String(v))

\* parseFloat(v) || 0
OrZero(x) == IF x.nan THEN 0 ELSE x.n
parseFloatOr0(v) == OrZero(parseFloat(v))

\* ToNumber(v)
ToNumber(v) ==
  CASE v.t = "number" -> [nan |-> FALSE, n |-> v.n]
    [] v.t = "string" -> NumberStr(v.s)
    [] v.t = "null" -> [nan |-> FALSE, n |-> 0]
    [] OTHER -> [nan |-> TRUE, n |-> 0]

\* a < b: two strings compare by code units, anything else as numbers, and a
\* comparison with NaN is false
NumLess(x, y) == ~x.nan /\ ~y.nan /\ x.n < y.n

JsLess(a, b) ==
  IF a.t = "string" /\ b.t = "string" THEN StrLess(a.s, b.s)
  ELSE NumLess(ToNumber(a), ToNumber(b))

-----------------------------------------------------------------------------
(* Objects: ordered lists of <<key, value>>                                *)

ObjKeys(o) == [i \in 1..Len(o) |-> o[i][1]]
ObjHas(o, k) == \E i \in 1..Len(o) : o[i][1] = k
\* o[k], undefined when the key is absent
ObjGet(o, k) ==
  IF ObjHas(o, k) THEN o[CHOOSE i \in 1..Len(o) : o[i][1] = k][2] ELSE Undefined
\* o[k] = v: an existing key keeps its position
ObjSet(o, k, v) ==
  IF ObjHas(o, k)
  THEN [i \in 1..Len(o) |-> IF o[i][1] = k THEN <<k, v>> ELSE o[i]]
  ELSE Append(o, <<k, v>>)
\* { ...a, ...b }
RECURSIVE ObjSpread(_, _)
ObjSpread(a, b) ==
  IF b = <<>> THEN a ELSE ObjSpread(ObjSet(a, b[1][1], b[1][2]), Tail(b))

\* tables[name], absent when the collection has no such table
TableOf(ts, name) ==
  IF ObjHas(ts, name) THEN ts[CHOOSE i \in 1..Len(ts) : ts[i][1] = name][2] ELSE <<>>

-----------------------------------------------------------------------------
(* Column type and role classification                                     *)

\* slice(0, 100): the classifier samples at most this many values
SampleLimit == 100

FirstN(s, n) == SubSeq(s, 1, IF Len(s) < n THEN Len(s) ELSE n)
SeqToSet(s) == {s[i] : i \in 1..Len(s)}

\* /^\d{4}-\d{2}-\d{2}/ at position i of s
HasIsoDateAt(s, i) ==
  /\ i + 9 <= Len(s)
  /\ \A k \in {0, 1, 2, 3, 5, 6, 8, 9} : IsDigit(s[i + k])
  /\ s[i + 4] = "-"
  /\ s[i + 7] = "-"

\* !isNaN(Date.parse(s)): of the strings of the model (dates, words, numerals)
\* the ISO dates are the ones every engine parses
DateParses(s) == Len(s) = 10 /\ HasIsoDateAt(s, 1)

\* A numeric test that asks for a string
IsNumericString(v) ==
  /\ v.t = "string"
  /\ ~parseFloatStr(trim(StripCurrency(v.s))).nan
  /\ ~NumberStr(trim(StripCurrency(v.s))).nan

\* The numeric test of the sample filter (lines 188-191)
IsNumericValue(v) ==
  LET cleaned == trim(StripCurrency(String(v)))
  IN ~parseFloatStr(cleaned).nan /\ ~NumberStr(cleaned).nan

\* The date test of the sample filter (lines 193-196); "/" is no character of
\* the model, so the M/D/Y pattern matches nothing
IsDateValue(v) == v.t = "string" /\ (DateParses(v.s) \/ HasIsoDateAt(v.s, 1))

detectColumnType(values) ==
  LET sample == FirstN(SelectSeq(values,
                         LAMBDA v : ~IsNullish(v) /\ v # Str(<<>>)), SampleLimit)
      numericCount == Len(SelectSeq(sample, IsNumericValue))
      dateCount == Len(SelectSeq(sample, IsDateValue))
      unique == Cardinality(SeqToSet(sample))
  IN IF Len(sample) = 0 THEN "text"
     \* numericCount > sample.length * 0.7, in tenths
     ELSE IF 10 * numericCount > 7 * Len(sample) THEN "number"
     ELSE IF 10 * dateCount > 7 * Len(sample) THEN "date"
     \* uniqueRatio < 0.3 && sample.length > 5
     ELSE IF 10 * unique < 3 * Len(sample) /\ Len(sample) > 5 THEN "category"
     ELSE "text"

\* The keyword stems of each role (lines 208-215)
patterns ==
  [ account |-> <<
      <<"a", "c", "c", "o", "u", "n", "t">>,
      <<"c", "u", "s", "t", "o", "m", "e", "r">>,
      <<"c", "l", "i", "e", "n", "t">>,
      <<"u", "s", "e", "r">>,
      <<"n", "a", "m", "e">>,
      <<"b", "u", "y", "e", "r">>,
      <<"c", "o", "m", "p", "a", "n", "y">>,
      <<"o", "r", "g">>,
      <<"v", "e", "n", "d", "o", "r">>,
      <<"m", "e", "m", "b", "e", "r">>,
      <<"s", "u", "p", "p", "l", "i", "e", "r">>
    >>,
    amount |-> <<
      <<"a", "m", "o", "u", "n", "t">>,
      <<"t", "o", "t", "a", "l">>,
      <<"p", "r", "i", "c", "e">>,
      <<"c", "o", "s", "t">>,
      <<"s", "p", "e", "n", "d">>,
      <<"r", "e", "v", "e", "n", "u", "e">>,
      <<"v", "a", "l", "u", "e">>,
      <<"s", "u", "m">>,
      <<"p", "a", "y", "m", "e", "n", "t">>,
      <<"b", "a", "l", "a", "n", "c", "e">>,
      <<"u", "n", "i", "t", "_", "c", "o", "s", "t">>,
      <<"u", "n", "i", "t", "_", "p", "r", "i", "c", "e">>,
      <<"e", "x", "t", "_", "c", "o", "s", "t">>,
      <<"e", "x", "t", "e", "n", "d", "e", "d">>
    >>,
    quantity |-> <<
      <<"q", "t", "y">>,
      <<"q", "u", "a", "n", "t", "i", "t", "y">>,
      <<"c", "o", "u", "n", "t">>,
      <<"u", "n", "i", "t", "s">>,
      <<"n", "u", "m">>,
      <<"n", "u", "m", "b", "e", "r">>
    >>,
    date |-> <<
      <<"d", "a", "t", "e">>,
      <<"t", "i", "m", "e">>,
      <<"d", "a", "y">>,
      <<"c", "r", "e", "a", "t", "e", "d">>,
      <<"u", "p", "d", "a", "t", "e", "d">>,
      <<"t", "i", "m", "e", "s", "t", "a", "m", "p">>,
      <<"o", "r", "d", "e", "r", "e", "d">>,
      <<"p", "u", "r", "c", "h", "a", "s", "e", "d">>
    >>,
    category |-> <<
      <<"c", "a", "t", "e", "g", "o", "r", "y">>,
      <<"t", "y", "p", "e">>,
      <<"g", "r", "o", "u", "p">>,
      <<"c", "l", "a", "s", "s">>,
      <<"d", "e", "p", "a", "r", "t", "m", "e", "n", "t">>,
      <<"s", "e", "c", "t", "i", "o", "n">>,
      <<"f", "a", "m", "i", "l", "y">>
    >>,
    partNumber |-> <<
      <<"p", "a", "r", "t">>,
      <<"s", "k", "u">>,
      <<"i", "t", "e", "m">>,
      <<"p", "r", "o", "d", "u", "c", "t">>,
      <<"p", "n">>,
      <<"p", "a", "r", "t", "_", "n", "u", "m", "b", "e", "r">>,
      <<"p", "a", "r", "t", "n", "u", "m", "b", "e", "r">>,
      <<"i", "t", "e", "m", "_", "n", "u", "m", "b", "e", "r">>,
      <<"i", "t", "e", "m", "n", "u", "m", "b", "e", "r">>,
      <<"m", "a", "t", "e", "r", "i", "a", "l">>
    >> ]

\* The column names of the model, spelled out so that the role scan can search
\* them for keyword stems
NameChars ==
  [ id |-> <<"i", "d">>,
    card_id |-> <<"c", "a", "r", "d", "_", "i", "d">>,
    amount |-> <<"a", "m", "o", "u", "n", "t">>,
    card_program_id |-> <<"c", "a", "r", "d", "_", "p", "r", "o", "g", "r", "a", "m", "_", "i", "d">>,
    card_program_name |-> <<"c", "a", "r", "d", "_", "p", "r", "o", "g", "r", "a", "m", "_", "n", "a", "m", "e">>,
    display_name |-> <<"d", "i", "s", "p", "l", "a", "y", "_", "n", "a", "m", "e">>,
    name |-> <<"n", "a", "m", "e">>,
    user_transaction_time |-> <<"u", "s", "e", "r", "_", "t", "r", "a", "n", "s", "a", "c", "t", "i", "o", "n", "_", "t", "i", "m", "e">>,
    qty |-> <<"q", "t", "y">>,
    unit_cost |-> <<"u", "n", "i", "t", "_", "c", "o", "s", "t">>,
    category |-> <<"c", "a", "t", "e", "g", "o", "r", "y">>,
    part |-> <<"p", "a", "r", "t">>,
    note |-> <<"n", "o", "t", "e">>,
    day |-> <<"d", "a", "y">>,
    notes |-> <<"n", "o", "t", "e", "s">>,
    _id |-> <<"_", "i", "d">>,
    column_1 |-> <<"c", "o", "l", "u", "m", "n", "_", "1">>,
    column_2 |-> <<"c", "o", "l", "u", "m", "n", "_", "2">>,
    ext_total |-> <<"e", "x", "t", "_", "t", "o", "t", "a", "l">> ]

\* No column: the undefined of cols.find and of an absent property
NoCol == ""

\* types[col], for a types object that may lack the column
TypeOf(types, col) ==
  IF ObjHas(types, col) THEN types[CHOOSE i \in 1..Len(types) : types[i][1] = col][2]
  ELSE "undefined"

\* s.replace(/[_-]/g, '')
StripSeparators(s) == SelectSeq(s, LAMBDA c : c \notin {"_", "-"})

\* keywords.some(k => colLower.includes(k.replace(/[_-]/g, '')))
NameMatches(role, col) ==
  LET colLower == StripSeparators(toLowerCase(NameChars[col]))
      keywords == patterns[role]
  IN \E i \in 1..Len(keywords) : includes(colLower, StripSeparators(keywords[i]))

\* The first column of a list, undefined when it is empty: cols.find(pred) is
\* the first of the columns satisfying pred
FirstCol(cols) == IF cols = <<>> THEN NoCol ELSE cols[1]

\* A scan that takes the first name match whatever its type
ScanRoleByName(role, cols, types) ==
  FirstCol(SelectSeq(cols, LAMBDA col : NameMatches(role, col)))

\* The scan of one role (lines 219-234)
ScanRole(role, cols, types) ==
  FirstCol(SelectSeq(cols, LAMBDA col :
    /\ NameMatches(role, col)
    /\ role \in {"amount", "quantity"} => TypeOf(types, col) = "number"))

detectSpecialColumns(cols, types) ==
  LET scanned == [role \in DOMAIN patterns |-> ScanRole(role, cols, types)]
      amount ==
        IF scanned.amount = NoCol
        THEN FirstCol(SelectSeq(cols, LAMBDA c : TypeOf(types, c) = "number"))
        ELSE scanned.amount
      account ==
        IF scanned.account = NoCol /\ scanned.category = NoCol
        THEN FirstCol(SelectSeq(cols, LAMBDA c : TypeOf(types, c) \in {"category", "text"}))
        ELSE scanned.account
  IN [scanned EXCEPT !.amount = amount, !.account = account]

-----------------------------------------------------------------------------
(* Tables                                                                  *)

\* tableData.map(row => row[col])
ColumnValues(tableData, col) == [i \in 1..Len(tableData) |-> ObjGet(tableData[i], col)]

\* Object.keys(tableData[0] || {}).filter(k => k !== '_id')
ColumnsOf(tableData) ==
  IF tableData = <<>> THEN <<>>
  ELSE SelectSeq(ObjKeys(tableData[1]), LAMBDA k : k # "_id")

\* The types loop shared by processTableData (368-372) and switchTable (642-646)
ClassifyColumns(tableData, cols) ==
  [j \in 1..Len(cols) |-> <<cols[j], detectColumnType(ColumnValues(tableData, cols[j]))>>]

\* The cell of a processed row (lines 377-382)
CoerceCell(type, v) ==
  IF type = "number" /\ ~IsNullish(v)
  THEN Num(parseFloatOr0(Str(trim(StripCurrency(String(v))))))
  ELSE v

\* The processed row of index idx (lines 374-385)
ProcessRow(row, idx, cols, types) ==
  ObjSpread(<< <<"_id", Num(idx)>> >>,
            [j \in 1..Len(cols) |-> <<cols[j], CoerceCell(types[j][2], ObjGet(row, cols[j]))>>])

ProcessRows(tableData, cols, types) ==
  [processedData |-> [i \in 1..Len(tableData) |-> ProcessRow(tableData[i], i - 1, cols, types)],
   types |-> types]

\* lines 367-388
processTableData(tableData, cols) ==
  ProcessRows(tableData, cols, ClassifyColumns(tableData, cols))

-----------------------------------------------------------------------------
(* The scan of an SQL text, character by character                         *)
(*                                                                         *)
(* A position past the end of a text is Len + 1; a scan that fails gives   *)
(* position 0.                                                             *)
(*                                                                         *)
(* The texts scanned here hold no SQL comment, no carriage return and no   *)
(* IF NOT EXISTS, so the replacements of lines 251-254 leave them as they   *)
(* are and the optional group of line 258 matches the empty string.        *)

\* \w
IsWordChar(c) ==
  \/ IsDigit(c)
  \/ c = "_"
  \/ \E i \in 1..26 : UpperChars[i] = c \/ LowerChars[i] = c

\* The characters [`"'\[] and [`"'\]] that may enclose a name
Openers == {"`", "\"", "'", "["}
Closers == {"`", "\"", "'", "]"}

\* A keyword at a position, in any letter case (the i flag)
MatchesAt(text, i, word) ==
  /\ i >= 1
  /\ i + Len(word) - 1 <= Len(text)
  /\ \A k \in 1..Len(word) : LowerChar(text[i + k - 1]) = LowerChar(word[k])

\* \s* from a position: the position of the first character that is no space
RECURSIVE SkipSpace(_, _)
SkipSpace(text, i) ==
  IF i <= Len(text) /\ text[i] = " " THEN SkipSpace(text, i + 1) ELSE i

\* \w* from a position
RECURSIVE WordEnd(_, _)
WordEnd(text, i) ==
  IF i <= Len(text) /\ IsWordChar(text[i]) THEN WordEnd(text, i + 1) ELSE i

\* [^)]* from a position
RECURSIVE ParenEnd(_, _)
ParenEnd(text, i) ==
  IF i <= Len(text) /\ text[i] # ")" THEN ParenEnd(text, i + 1) ELSE i

SkipOne(text, i, chars) == IF i <= Len(text) /\ text[i] \in chars THEN i + 1 ELSE i

\* \s+word from a position: the position after the word
SpacedWord(text, i, word) ==
  IF i >= 1 /\ SkipSpace(text, i) > i /\ MatchesAt(text, SkipSpace(text, i), word)
  THEN SkipSpace(text, i) + Len(word)
  ELSE 0

kwInsert == <<"I", "N", "S", "E", "R", "T">>
kwInto == <<"I", "N", "T", "O">>
kwValues == <<"V", "A", "L", "U", "E", "S">>
kwCreate == <<"C", "R", "E", "A", "T", "E">>
kwTable == <<"T", "A", "B", "L", "E">>
kwEngine == <<"E", "N", "G", "I", "N", "E">>
kwNull == <<"N", "U", "L", "L">>

\* The words that end a VALUES block besides INSERT INTO (line 279)
Stoppers ==
  { kwCreate,
    <<"D", "R", "O", "P">>,
    <<"A", "L", "T", "E", "R">>,
    <<"U", "P", "D", "A", "T", "E">>,
    <<"D", "E", "L", "E", "T", "E">> }

\* The column types of colRegex (line 266), in the order of the alternation
ColumnTypes ==
  << <<"I", "N", "T">>, <<"I", "N", "T", "E", "G", "E", "R">>,
     <<"V", "A", "R", "C", "H", "A", "R">>, <<"T", "E", "X", "T">>,
     <<"C", "H", "A", "R">>, <<"D", "A", "T", "E">>,
     <<"D", "A", "T", "E", "T", "I", "M", "E">>,
     <<"T", "I", "M", "E", "S", "T", "A", "M", "P">>,
     <<"D", "E", "C", "I", "M", "A", "L">>, <<"F", "L", "O", "A", "T">>,
     <<"D", "O", "U", "B", "L", "E">>, <<"B", "O", "O", "L", "E", "A", "N">>,
     <<"B", "O", "O", "L">>, <<"B", "I", "G", "I", "N", "T">>,
     <<"S", "M", "A", "L", "L", "I", "N", "T">>, <<"T", "I", "N", "Y", "I", "N", "T">>,
     <<"N", "U", "M", "E", "R", "I", "C">>, <<"R", "E", "A", "L">>,
     <<"M", "O", "N", "E", "Y">>, <<"T", "I", "M", "E">>,
     <<"N", "V", "A", "R", "C", "H", "A", "R">>, <<"B", "I", "T">> >>

\* The name of the model spelled by characters
NameOfChars(chars) == CHOOSE n \in DOMAIN NameChars : NameChars[n] = chars

\* The least position from a position on that is in a set, 0 when none is
FirstIn(positions, from) ==
  IF \E i \in positions : i >= from
  THEN CHOOSE i \in positions : i >= from /\ \A j \in positions : j >= from => i <= j
  ELSE 0

(* colRegex (line 266): a name, white space, a type *)

\* The position after the name that starts at a position, 0 when none does
ColNameEnd(block, i) ==
  IF WordEnd(block, SkipOne(block, i, Openers)) > SkipOne(block, i, Openers)
  THEN WordEnd(block, SkipOne(block, i, Openers))
  ELSE 0

\* The position after the type that follows the white space at a position
TypeEnd(block, i) ==
  IF i >= 1 /\ SkipSpace(block, i) > i
     /\ \E t \in 1..Len(ColumnTypes) : MatchesAt(block, SkipSpace(block, i), ColumnTypes[t])
  THEN SkipSpace(block, i)
       + Len(ColumnTypes[CHOOSE t \in 1..Len(ColumnTypes) :
               /\ MatchesAt(block, SkipSpace(block, i), ColumnTypes[t])
               /\ \A u \in 1..(t - 1) : ~MatchesAt(block, SkipSpace(block, i), ColumnTypes[u])])
  ELSE 0

\* The position after a column definition that starts at a position
ColDefEnd(block, i) ==
  IF ColNameEnd(block, i) = 0 THEN 0
  ELSE TypeEnd(block, SkipOne(block, ColNameEnd(block, i), Closers))

ColDefName(block, i) ==
  SubSeq(block, SkipOne(block, i, Openers), ColNameEnd(block, i) - 1)

\* The while loop of lines 269-271
RECURSIVE ColumnDefs(_, _, _)
ColumnDefs(block, from, defs) ==
  IF FirstIn({i \in 1..Len(block) : ColDefEnd(block, i) > 0}, from) = 0 THEN defs
  ELSE ColumnDefs(block,
         ColDefEnd(block, FirstIn({i \in 1..Len(block) : ColDefEnd(block, i) > 0}, from)),
         Append(defs,
           ColDefName(block, FirstIn({i \in 1..Len(block) : ColDefEnd(block, i) > 0}, from))))

(* createTableRegex (line 258) *)

\* The position of the name of the table created at a position
CreateNameAt(text, i) ==
  IF MatchesAt(text, i, kwCreate) /\ SpacedWord(text, i + Len(kwCreate), kwTable) > 0
     /\ SkipSpace(text, SpacedWord(text, i + Len(kwCreate), kwTable))
          > SpacedWord(text, i + Len(kwCreate), kwTable)
  THEN SkipOne(text, SkipSpace(text, SpacedWord(text, i + Len(kwCreate), kwTable)), Openers)
  ELSE 0

\* The position of the parenthesis that opens the columns block
CreateOpenAt(text, i) ==
  IF CreateNameAt(text, i) > 0
     /\ WordEnd(text, CreateNameAt(text, i)) > CreateNameAt(text, i)
     /\ MatchesAt(text,
          SkipSpace(text, SkipOne(text, WordEnd(text, CreateNameAt(text, i)), Closers)),
          <<"(">>)
  THEN SkipSpace(text, SkipOne(text, WordEnd(text, CreateNameAt(text, i)), Closers))
  ELSE 0

\* What may follow the parenthesis that closes the columns block
BlockCloses(text, e) ==
  /\ e <= Len(text) /\ text[e] = ")"
  /\ \/ MatchesAt(text, SkipSpace(text, e + 1), kwEngine)
     \/ MatchesAt(text, SkipSpace(text, e + 1), <<";">>)
     \/ SkipSpace(text, e + 1) = Len(text) + 1

\* The position of the parenthesis that closes the block opened at a position
CreateCloseAt(text, open) ==
  FirstIn({e \in 1..Len(text) : BlockCloses(text, e)}, open + 1)

\* The position after the match
CreateEnd(text, close) ==
  IF MatchesAt(text, SkipSpace(text, close + 1), kwEngine)
  THEN SkipSpace(text, close + 1) + Len(kwEngine)
  ELSE IF MatchesAt(text, SkipSpace(text, close + 1), <<";">>)
       THEN SkipSpace(text, close + 1) + 1
       ELSE Len(text) + 1

CreateMatches(text, i) ==
  CreateOpenAt(text, i) > 0 /\ CreateCloseAt(text, CreateOpenAt(text, i)) > 0

\* tableSchemas with the table of a match (lines 262-276)
WithSchema(schemas, name, defs) ==
  IF Len(defs) > 0 THEN ObjSet(schemas, toLowerCase(name), defs) ELSE schemas

SchemaOfMatch(schemas, text, name, open, close) ==
  WithSchema(schemas, SubSeq(text, name, WordEnd(text, name) - 1),
             ColumnDefs(SubSeq(text, open + 1, close - 1), 1, <<>>))

\* The while loop of lines 261-277
RECURSIVE TableSchemas(_, _, _)
RECURSIVE TableSchemasAt(_, _, _)
TableSchemasAt(text, at, schemas) ==
  IF at = 0 THEN schemas
  ELSE TableSchemas(text,
         CreateEnd(text, CreateCloseAt(text, CreateOpenAt(text, at))),
         SchemaOfMatch(schemas, text, CreateNameAt(text, at), CreateOpenAt(text, at),
                       CreateCloseAt(text, CreateOpenAt(text, at))))
TableSchemas(text, from, schemas) ==
  TableSchemasAt(text, FirstIn({i \in 1..Len(text) : CreateMatches(text, i)}, from), schemas)

(* insertRegex (line 279) *)

\* The position of the name of the table of the INSERT at a position
InsertNameAt(text, i) ==
  IF MatchesAt(text, i, kwInsert) /\ SpacedWord(text, i + Len(kwInsert), kwInto) > 0
     /\ SkipSpace(text, SpacedWord(text, i + Len(kwInsert), kwInto))
          > SpacedWord(text, i + Len(kwInsert), kwInto)
     /\ WordEnd(text, SkipOne(text, SkipSpace(text,
                  SpacedWord(text, i + Len(kwInsert), kwInto)), Openers))
          > SkipOne(text, SkipSpace(text, SpacedWord(text, i + Len(kwInsert), kwInto)), Openers)
  THEN SkipOne(text, SkipSpace(text, SpacedWord(text, i + Len(kwInsert), kwInto)), Openers)
  ELSE 0

\* The position after the name, its closer and the white space
AfterName(text, name) == SkipSpace(text, SkipOne(text, WordEnd(text, name), Closers))

\* (?:\(([^)]+)\))? : whether an explicit column list starts at a position
HasColumnList(text, p) ==
  /\ MatchesAt(text, p, <<"(">>)
  /\ ParenEnd(text, p + 1) > p + 1
  /\ ParenEnd(text, p + 1) <= Len(text)

AfterColumnList(text, p) ==
  IF HasColumnList(text, p) THEN ParenEnd(text, p + 1) + 1 ELSE p

\* The position where the VALUES block of the INSERT of a name starts
ValuesAt(text, name) ==
  IF name > 0
     /\ MatchesAt(text, SkipSpace(text, AfterColumnList(text, AfterName(text, name))), kwValues)
  THEN SkipSpace(text,
         SkipSpace(text, AfterColumnList(text, AfterName(text, name))) + Len(kwValues))
  ELSE 0

\* The lookahead that ends a VALUES block: the next INSERT INTO, one of the
\* stop words wherever it stands, or the end of the text after an optional
\* semicolon
BlockStops(text, q) ==
  \/ MatchesAt(text, q, kwInsert) /\ SpacedWord(text, q + Len(kwInsert), kwInto) > 0
  \/ \E w \in Stoppers : MatchesAt(text, q, w)
  \/ SkipSpace(text, SkipOne(text, q, {";"})) = Len(text) + 1

\* The position at which the VALUES block that starts at a position ends
ValuesEnd(text, start) ==
  FirstIn({q \in 1..(Len(text) + 1) : BlockStops(text, q)}, start)

InsertMatches(text, i) == ValuesAt(text, InsertNameAt(text, i)) > 0

(* The value sets of a VALUES block (lines 293-297) *)

\* /\(([^)]+)\)/ at a position
TupleAt(block, i) ==
  /\ MatchesAt(block, i, <<"(">>)
  /\ ParenEnd(block, i + 1) > i + 1
  /\ ParenEnd(block, i + 1) <= Len(block)

\* The splitter of lines 298-318 from a position on: the values so far, the
\* current one, and whether the position is inside a literal and of which
\* quote
RECURSIVE SplitValues(_, _, _, _, _, _)
SplitValues(valueStr, i, values, current, inString, stringChar) ==
  IF i > Len(valueStr) THEN Append(values, trim(current))
  ELSE IF ~inString /\ valueStr[i] \in {"'", "\""}
       THEN SplitValues(valueStr, i + 1, values, Append(current, valueStr[i]),
                        TRUE, valueStr[i])
  ELSE IF inString /\ valueStr[i] = stringChar /\ (i = 1 \/ valueStr[i - 1] # "\\")
       THEN SplitValues(valueStr, i + 1, values, Append(current, valueStr[i]),
                        FALSE, stringChar)
  ELSE IF ~inString /\ valueStr[i] = ","
       THEN SplitValues(valueStr, i + 1, Append(values, trim(current)), <<>>,
                        inString, stringChar)
  ELSE SplitValues(valueStr, i + 1, values, Append(current, valueStr[i]),
                   inString, stringChar)

\* s.replace(/\\'/g, "'").replace(/\\"/g, '"') for one quote
RECURSIVE Unescape(_, _)
Unescape(s, quote) ==
  IF s = <<>> THEN <<>>
  ELSE IF Len(s) >= 2 /\ s[1] = "\\" /\ s[2] = quote
       THEN <<quote>> \o Unescape(SubSeq(s, 3, Len(s)), quote)
  ELSE <<Head(s)>> \o Unescape(Tail(s), quote)

IsQuoted(v, quote) == v # <<>> /\ v[1] = quote /\ v[Len(v)] = quote

\* The decoder of lines 320-329 on a trimmed value
DecodeTrimmed(v) ==
  IF IsQuoted(v, "'") \/ IsQuoted(v, "\"")
  THEN Str(Unescape(Unescape(SubSeq(v, 2, Len(v) - 1), "'"), "\""))
  ELSE IF toLowerCase(v) = toLowerCase(kwNull) THEN Null
  ELSE IF ~parseFloatStr(v).nan /\ ~NumberStr(v).nan THEN Num(parseFloatStr(v).n)
  ELSE Str(v)

DecodeValue(v) == DecodeTrimmed(trim(v))

\* cleanedValues of a value set (lines 296-329)
CleanedValues(valueStr) ==
  [i \in 1..Len(SplitValues(valueStr, 1, <<>>, <<>>, FALSE, ""))
     |-> DecodeValue(SplitValues(valueStr, 1, <<>>, <<>>, FALSE, "")[i])]

\* The while loop of lines 297-340 but for the rows: the decoded value sets
RECURSIVE ValueSets(_, _, _)
RECURSIVE ValueSetsAt(_, _, _)
ValueSetsAt(block, at, tuples) ==
  IF at = 0 THEN tuples
  ELSE ValueSets(block, ParenEnd(block, at + 1) + 1,
                 Append(tuples, CleanedValues(SubSeq(block, at + 1, ParenEnd(block, at + 1) - 1))))
ValueSets(block, from, tuples) ==
  ValueSetsAt(block, FirstIn({i \in 1..Len(block) : TupleAt(block, i)}, from), tuples)

(* The column list of an INSERT (lines 286-291, 331-333) *)

\* explicitColumns.split(',')
RECURSIVE SplitOnComma(_, _, _)
SplitOnComma(s, parts, current) ==
  IF s = <<>> THEN Append(parts, current)
  ELSE IF Head(s) = "," THEN SplitOnComma(Tail(s), Append(parts, current), <<>>)
  ELSE SplitOnComma(Tail(s), parts, Append(current, Head(s)))

\* c.trim().replace(/[`"'\[\]]/g, '')
CleanColumn(c) == SelectSeq(trim(c), LAMBDA ch : ch \notin Openers \cup Closers)

ExplicitColumns(list) ==
  [i \in 1..Len(SplitOnComma(list, <<>>, <<>>)) |->
     CleanColumn(SplitOnComma(list, <<>>, <<>>)[i])]

\* `column_${i + 1}` (line 332)
DefaultColumns(n) == [i \in 1..n |-> <<"c", "o", "l", "u", "m", "n", "_">> \o NatToStr(i)]

\* cols of an INSERT: the explicit list, else the schema of the table, else
\* the default names for the values of the first value set
ColumnsOfInsert(text, listAt, tableName, schemas, tuples) ==
  IF HasColumnList(text, listAt)
  THEN ExplicitColumns(SubSeq(text, listAt + 1, ParenEnd(text, listAt + 1) - 1))
  ELSE IF ObjHas(schemas, tableName) THEN ObjGet(schemas, tableName)
  ELSE IF tuples # <<>> THEN DefaultColumns(Len(tuples[1]))
  ELSE <<>>

NamesOfChars(cols) == [i \in 1..Len(cols) |-> NameOfChars(cols[i])]

\* The INSERT block of a match: its table, its columns and its value sets
InsertBlock(text, name, schemas, tuples) ==
  [table |-> NameOfChars(toLowerCase(SubSeq(text, name, WordEnd(text, name) - 1))),
   cols |-> NamesOfChars(ColumnsOfInsert(text, AfterName(text, name),
                           toLowerCase(SubSeq(text, name, WordEnd(text, name) - 1)),
                           schemas, tuples)),
   tuples |-> tuples]

BlockOfMatch(text, name, start, schemas) ==
  InsertBlock(text, name, schemas,
              ValueSets(SubSeq(text, start, ValuesEnd(text, start) - 1), 1, <<>>))

\* The while loop of lines 281-350 but for the rows
RECURSIVE InsertBlocks(_, _, _, _)
RECURSIVE InsertBlocksAt(_, _, _, _)
InsertBlocksAt(text, at, schemas, blocks) ==
  IF at = 0 THEN blocks
  ELSE InsertBlocks(text, ValuesEnd(text, ValuesAt(text, InsertNameAt(text, at))), schemas,
         Append(blocks, BlockOfMatch(text, InsertNameAt(text, at),
                                     ValuesAt(text, InsertNameAt(text, at)), schemas)))
InsertBlocks(text, from, schemas, blocks) ==
  InsertBlocksAt(text, FirstIn({i \in 1..Len(text) : InsertMatches(text, i)}, from),
                 schemas, blocks)

\* The INSERT blocks of a text (lines 258-340)
ScanSql(text) == InsertBlocks(text, 1, TableSchemas(text, 1, <<>>), <<>>)

-----------------------------------------------------------------------------
(* SQL extraction, from the decoded INSERT blocks on                       *)
(*                                                                         *)
(* A SQL text is represented by the INSERT blocks the scanner finds in it, *)
(* in order: [table, cols, tuples], cols being the column list the block   *)
(* resolved and tuples the decoded value lists.                            *)

LogLine(kind, n, m, name) == [kind |-> kind, n |-> n, m |-> m, name |-> name]

\* The rows of one INSERT block (lines 336-340)
BlockRows(b) ==
  [i \in 1..Len(b.tuples) |->
     ObjSpread(<< <<"_id", Num(i - 1)>> >>,
               [j \in 1..Len(b.cols) |->
                  <<b.cols[j],
                    IF j <= Len(b.tuples[i]) THEN b.tuples[i][j] ELSE Null>>])]

\* extractedTables after the blocks (lines 343-349): rows of a table
\* accumulate across the blocks that name it
RECURSIVE ExtractBlocks(_, _)
ExtractBlocks(blocks, extracted) ==
  IF blocks = <<>> THEN extracted
  ELSE LET b == Head(blocks)
           rows == BlockRows(b)
       IN ExtractBlocks(Tail(blocks),
            IF Len(rows) > 0
            THEN ObjSet(extracted, b.table, TableOf(extracted, b.table) \o rows)
            ELSE extracted)

\* rows.map((row, idx) => ({ ...row, _id: idx })) (line 354)
Renumber(rows) == [i \in 1..Len(rows) |-> ObjSet(rows[i], "_id", Num(i - 1))]

RECURSIVE SumLen(_)
SumLen(ts) == IF ts = <<>> THEN 0 ELSE Len(ts[1][2]) + SumLen(Tail(ts))

\* The lower-case names a plain object inherits: extractedTables[name] is
\* then truthy before any table was stored under the name (line 343)
InheritedKeys == {"constructor", "__proto__"}

\* parseSQLFile raises a TypeError: for a block with rows whose table name is
\* an inherited key, line 343 finds extractedTables[tableName] truthy, no
\* entry is created, and line 346 reads .rows.push of a value without rows
ParseRaises(content) ==
  \E i \in 1..Len(content) :
    Len(content[i].tuples) > 0 /\ content[i].table \in InheritedKeys

parseSQLFile(content) ==
  LET extracted == ExtractBlocks(content, <<>>)
      result == [i \in 1..Len(extracted) |-> <<extracted[i][1], Renumber(extracted[i][2])>>]
      loaded == SelectSeq(content, LAMBDA b : Len(b.tuples) > 0)
      logs == << LogLine("parsing", 0, 0, "") >>
              \o [i \in 1..Len(loaded) |->
                    LogLine("loaded", Len(loaded[i].tuples), 0, loaded[i].table)]
              \o (IF Len(result) = 0
                  THEN << LogLine("noData", 0, 0, "") >>
                  ELSE << LogLine("done", Len(result), SumLen(result), "") >>)
  IN [tables |-> result, logs |-> logs]

-----------------------------------------------------------------------------
(* The join of transactions, cards and card_programs                       *)

\* A lookup object keyed by id: a property key is the string form of the
\* value, so map[row.id] and map[String(row.id)] are one entry (lines 438-448)
RECURSIVE BuildMap(_, _)
BuildMap(rows, map) ==
  IF rows = <<>> THEN map
  ELSE BuildMap(Tail(rows), ObjSet(map, String(ObjGet(Head(rows), "id")), Head(rows)))

\* map[key] || map[String(key)], as [found, row]
Lookup(map, key) ==
  IF ObjHas(map, String(key))
  THEN [found |-> TRUE, row |-> map[CHOOSE i \in 1..Len(map) : map[i][1] = String(key)][2]]
  ELSE [found |-> FALSE, row |-> <<>>]

\* The card of a transaction, {} when none matches (line 457)
CardOf(cardsMap, txn) == Lookup(cardsMap, ObjGet(txn, "card_id")).row

\* The program record of a program id (line 459): looked up only when the id
\* is truthy
ProgramOf(programsMap, programId) ==
  IF Truthy(programId) THEN Lookup(programsMap, programId)
  ELSE [found |-> FALSE, row |-> <<>>]

\* "Program #<id>"
ProgramNumber(programId) ==
  Str(<<"P", "r", "o", "g", "r", "a", "m", " ", "#">> \o String(programId))

UnknownProgram ==
  Str(<<"U", "n", "k", "n", "o", "w", "n", " ", "P", "r", "o", "g", "r", "a", "m">>)

\* A program name without the "Program #<id>" branch
ProgramNameWithoutNumber(program, programId) ==
  IF program.found /\ Truthy(OrElse(ObjGet(program.row, "display_name"),
                                    ObjGet(program.row, "name")))
  THEN OrElse(ObjGet(program.row, "display_name"), ObjGet(program.row, "name"))
  ELSE UnknownProgram

\* The program name of a joined row (lines 468-473)
ProgramName(program, programId) ==
  LET label == OrElse(ObjGet(program.row, "display_name"), ObjGet(program.row, "name"))
  IN IF program.found /\ Truthy(label) THEN label
     ELSE IF ~IsNullish(programId) THEN ProgramNumber(programId)
     ELSE UnknownProgram

\* A joined row built without the spread of the transaction
JoinedRowWithoutSpread(idx, txn, programId, programName) ==
  << <<"_id", Num(idx)>>, <<"card_program_id", programId>>,
     <<"card_program_name", programName>> >>

\* The joined row (lines 475-480)
JoinedRow(idx, txn, programId, programName) ==
  ObjSet(ObjSet(ObjSpread(<< <<"_id", Num(idx)>> >>, txn),
                "card_program_id", programId),
         "card_program_name", programName)

\* An array push in place of the set insertion
PushAlways(set, v) == Append(set, v)

\* new Set(...).add(v)
SetAdd(set, v) == IF \E i \in 1..Len(set) : set[i] = v THEN set ELSE Append(set, v)

\* One transaction of the join loop: counters, unmatched ids and the joined row
JoinStep(acc, idx, txn, cardsMap, programsMap) ==
  LET card == CardOf(cardsMap, txn)
      programId == ObjGet(card, "card_program_id")
      program == ProgramOf(programsMap, programId)
      matched == Len(ObjKeys(card)) > 0
  IN [joinedData |->
        Append(acc.joinedData,
               JoinedRow(idx, txn, programId, ProgramName(program, programId))),
      matchedCards |-> acc.matchedCards + (IF matched THEN 1 ELSE 0),
      matchedPrograms |-> acc.matchedPrograms + (IF program.found THEN 1 ELSE 0),
      unmatchedCardIds |->
        IF matched THEN acc.unmatchedCardIds
        ELSE SetAdd(acc.unmatchedCardIds, ObjGet(txn, "card_id"))]

RECURSIVE JoinLoop(_, _, _, _, _)
JoinLoop(txns, idx, acc, cardsMap, programsMap) ==
  IF idx >= Len(txns) THEN acc
  ELSE JoinLoop(txns, idx + 1,
                JoinStep(acc, idx, txns[idx + 1], cardsMap, programsMap),
                cardsMap, programsMap)

NoJoin ==
  [joinedData |-> <<>>, matchedCards |-> 0, matchedPrograms |-> 0,
   unmatchedCardIds |-> <<>>]

\* The join of processContent (lines 436-481)
JoinTables(parsedTables) ==
  JoinLoop(TableOf(parsedTables, "transactions"), 0, NoJoin,
           BuildMap(TableOf(parsedTables, "cards"), <<>>),
           BuildMap(TableOf(parsedTables, "card_programs"), <<>>))

\* The log lines of the join (lines 486-499)
JoinLog(j, totalTxns) ==
  (IF j.matchedCards = totalTxns
   THEN << LogLine("allMatched", totalTxns, 0, "") >>
   ELSE << LogLine("joined", j.matchedCards, totalTxns, "") >>)
  \o (IF j.matchedCards < totalTxns
      THEN << LogLine("unmatched", Len(j.unmatchedCardIds), 0, ""),
              LogLine("unmatchedSample", 0, 0, ""),
              LogLine("cardIdSample", 0, 0, "") >>
      ELSE <<>>)

\* parsedTables[name], truthy when the table was extracted
HasTable(ts, name) == ObjHas(ts, name)

Joinable(ts) ==
  HasTable(ts, "transactions") /\ HasTable(ts, "cards") /\ HasTable(ts, "card_programs")

\* The tables after processTableData (lines 424-430)
TypeTables(ts) ==
  [i \in 1..Len(ts) |->
     <<ts[i][1], processTableData(ts[i][2], ColumnsOf(ts[i][2])).processedData>>]

\* parsedTables once the joined table is added (line 483)
AddJoined(typed, j) ==
  IF Joinable(typed) THEN ObjSet(typed, "transactions_joined", j.joinedData) ELSE typed

\* The table shown first (lines 502-506)
DefaultTable(parsedTables) ==
  IF HasTable(parsedTables, "transactions_joined") THEN "transactions_joined"
  ELSE IF HasTable(parsedTables, "transactions") THEN "transactions"
  ELSE parsedTables[1][1]

\* What processContent hands to the setters (lines 508-530)
Loaded(parsedTables, defaultTable, joined, j, logs) ==
  [found |-> TRUE,
   tables |-> parsedTables,
   activeTable |-> defaultTable,
   columns |-> ColumnsOf(TableOf(parsedTables, defaultTable)),
   columnTypes |-> ClassifyColumns(TableOf(parsedTables, defaultTable),
                                   ColumnsOf(TableOf(parsedTables, defaultTable))),
   joined |-> joined,
   join |-> j,
   logs |-> logs]

\* The join stage of processContent (lines 432-500)
JoinStage(typed, j, logs) ==
  Loaded(AddJoined(typed, j), DefaultTable(AddJoined(typed, j)), Joinable(typed), j,
         IF Joinable(typed)
         THEN logs \o JoinLog(j, Len(TableOf(typed, "transactions")))
         ELSE logs)

TypedStage(typed, logs) ==
  JoinStage(typed, IF Joinable(typed) THEN JoinTables(typed) ELSE NoJoin, logs)

ParsedStage(parsed) ==
  IF Len(parsed.tables) = 0
  THEN [found |-> FALSE, logs |-> parsed.logs]
  ELSE TypedStage(TypeTables(parsed.tables), parsed.logs)

\* processContent(content, 'sql', name): what the handler computes before it
\* writes the state (lines 418-513); the column types of the table shown are
\* those processTableData returns for it (line 513)
processContent(content) == ParsedStage(parseSQLFile(content))

-----------------------------------------------------------------------------
(* The query pipeline: filteredData                                       *)

\* 'all', the sentinel of the category and month selections
All == <<"a", "l", "l">>

\* calcCol.calculate(row) of the ext_total column (line 710)
calculate(calcCol, row) ==
  Num(parseFloatOr0(ObjGet(row, calcCol.qtyCol))
      * parseFloatOr0(ObjGet(row, calcCol.priceCol)))

\* calculatedColumns.find(c => c.name === name)
HasCalc(calcs, name) == \E i \in 1..Len(calcs) : calcs[i].name = name
FindCalc(calcs, name) == calcs[CHOOSE i \in 1..Len(calcs) : calcs[i].name = name]

\* The month key of a date cell (lines 731-748), <<>> when the row is to be
\* excluded.  The first ISO date found in a string is read as a calendar day;
\* a string without one is no date of the model.
MonthKey(dateVal) ==
  IF ~Truthy(dateVal) \/ dateVal.t # "string" THEN <<>>
  ELSE IF \E i \in 1..Len(dateVal.s) : HasIsoDateAt(dateVal.s, i)
       THEN LET i == CHOOSE k \in 1..Len(dateVal.s) :
                       /\ HasIsoDateAt(dateVal.s, k)
                       /\ \A m \in 1..(k - 1) : ~HasIsoDateAt(dateVal.s, m)
            IN SubSeq(dateVal.s, i, i + 6)
       ELSE <<>>

\* The category filter (lines 722-725)
CategoryFilter(rows, catCol, category) ==
  IF category # All /\ catCol # NoCol
  THEN SelectSeq(rows, LAMBDA row : ObjGet(row, catCol) = Str(category))
  ELSE rows

\* The month filter (lines 728-750)
MonthFilter(rows, dateCol, month) ==
  IF month # All /\ dateCol # NoCol
  THEN SelectSeq(rows, LAMBDA row : MonthKey(ObjGet(row, dateCol)) = month)
  ELSE rows

\* The test of one column filter (line 755)
CellMatches(cell, value) ==
  includes(toLowerCase(String(OrElse(cell, Str(<<>>)))), toLowerCase(value))

\* Object.entries(filters).forEach(...) (lines 752-758)
RECURSIVE ColumnFilters(_, _)
ColumnFilters(rows, fs) ==
  IF fs = <<>> THEN rows
  ELSE ColumnFilters(
         IF Head(fs)[2] # <<>>
         THEN SelectSeq(rows, LAMBDA row : CellMatches(ObjGet(row, Head(fs)[1]), Head(fs)[2]))
         ELSE rows,
         Tail(fs))

\* The value a row is sorted by (lines 762-769)
SortValue(sc, calcs, row) ==
  IF HasCalc(calcs, sc.key) THEN calculate(FindCalc(calcs, sc.key), row)
  ELSE ObjGet(row, sc.key)

\* A comparator that lets the direction decide where a missing value goes
CompareNullsByDirection(aVal, bVal, direction) ==
  IF IsNullish(aVal) THEN (IF direction = "asc" THEN 1 ELSE -1)
  ELSE IF IsNullish(bVal) THEN (IF direction = "asc" THEN -1 ELSE 1)
  ELSE IF JsLess(aVal, bVal) THEN (IF direction = "asc" THEN -1 ELSE 1)
  ELSE IF JsLess(bVal, aVal) THEN (IF direction = "asc" THEN 1 ELSE -1)
  ELSE 0

\* The comparator of result.sort (lines 771-775)
Compare(aVal, bVal, direction) ==
  IF IsNullish(aVal) THEN 1
  ELSE IF IsNullish(bVal) THEN -1
  ELSE IF JsLess(aVal, bVal) THEN (IF direction = "asc" THEN -1 ELSE 1)
  ELSE IF JsLess(bVal, aVal) THEN (IF direction = "asc" THEN 1 ELSE -1)
  ELSE 0

\* a[key] of a summary entry: the counts are numbers, card_count the size of
\* the card set (lines 123-125)
SummaryField(entry, key) ==
  CASE key = "card_id" -> entry.card_id
    [] key = "card_program_id" -> entry.card_program_id
    [] key = "card_program_name" -> entry.card_program_name
    [] key = "transaction_count" -> Num(entry.transaction_count)
    [] key = "total_spend" -> Num(entry.total_spend)
    [] key = "card_count" /\ "cards" \in DOMAIN entry -> Num(Len(entry.cards))
    [] OTHER -> Undefined

\* if (typeof aVal === 'string') aVal = aVal.toLowerCase() (lines 85-86)
LowerIfString(v) == IF v.t = "string" THEN Str(toLowerCase(v.s)) ELSE v

\* The comparator of the two summaries (lines 84-90, 134-140)
SummaryCompare(aVal, bVal, dir) ==
  IF JsLess(LowerIfString(aVal), LowerIfString(bVal)) THEN (IF dir = "asc" THEN -1 ELSE 1)
  ELSE IF JsLess(LowerIfString(bVal), LowerIfString(aVal)) THEN (IF dir = "asc" THEN 1 ELSE -1)
  ELSE 0

\* The comparator handed to sort: that of a summary for a sort state of the
\* dashboard ({ key, dir }), that of the view for sortConfig
SortCompare(sc, calcs, a, b) ==
  IF "dir" \in DOMAIN sc
  THEN SummaryCompare(SummaryField(a, sc.key), SummaryField(b, sc.key), sc.dir)
  ELSE Compare(SortValue(sc, calcs, a), SortValue(sc, calcs, b), sc.direction)

(* Array.prototype.sort.  The comparator is not a consistent one (two nulls   *)
(* compare as 1 in both orders, a string and a number as 0), and for such a   *)
(* comparator the order is left to the engine.  The two algorithms engines    *)
(* run on arrays this short are modelled: binary insertion after an initial   *)
(* run (V8) and linear insertion (SpiderMonkey).                              *)
Engines == {"binaryInsertion", "linearInsertion"}

InsertAt(a, pos, x) == SubSeq(a, 1, pos) \o <<x>> \o SubSeq(a, pos + 1, Len(a))
Reverse(a) == [i \in 1..Len(a) |-> a[Len(a) + 1 - i]]

\* The position (0-based) binary insertion finds for pivot in a[1..right]
RECURSIVE BinarySearch(_, _, _, _, _, _)
BinarySearch(sc, calcs, a, pivot, left, right) ==
  IF left >= right THEN left
  ELSE LET mid == left + ((right - left) \div 2)
       IN IF SortCompare(sc, calcs, pivot, a[mid + 1]) < 0
          THEN BinarySearch(sc, calcs, a, pivot, left, mid)
          ELSE BinarySearch(sc, calcs, a, pivot, mid + 1, right)

\* The length of the initial run, given whether it descends
RECURSIVE RunLength(_, _, _, _, _)
RunLength(sc, calcs, a, len, desc) ==
  IF len >= Len(a) THEN len
  ELSE IF desc = (SortCompare(sc, calcs, a[len + 1], a[len]) >= 0) THEN len
  ELSE RunLength(sc, calcs, a, len + 1, desc)

RECURSIVE BinaryInsertion(_, _, _, _)
BinaryInsertion(sc, calcs, a, start) ==
  IF start >= Len(a) THEN a
  ELSE LET pivot == a[start + 1]
           pos == BinarySearch(sc, calcs, a, pivot, 0, start)
       IN BinaryInsertion(sc, calcs,
            InsertAt(SubSeq(a, 1, start), pos, pivot) \o SubSeq(a, start + 2, Len(a)),
            start + 1)

\* The array once its initial run of length run ascends
MakeAscending(a, run, desc) ==
  IF desc THEN Reverse(SubSeq(a, 1, run)) \o SubSeq(a, run + 1, Len(a)) ELSE a

InsertAfterRun(sc, calcs, a, run, desc) ==
  BinaryInsertion(sc, calcs, MakeAscending(a, run, desc), run)

SortFromRun(sc, calcs, a, desc) ==
  InsertAfterRun(sc, calcs, a, RunLength(sc, calcs, a, 2, desc), desc)

BinaryInsertionSort(sc, calcs, a) ==
  IF Len(a) < 2 THEN a
  ELSE SortFromRun(sc, calcs, a, SortCompare(sc, calcs, a[2], a[1]) < 0)

\* The position (0-based) linear insertion finds for item after a[1..j]
RECURSIVE LinearSearch(_, _, _, _, _)
LinearSearch(sc, calcs, a, item, j) ==
  IF j = 0 THEN 0
  ELSE IF SortCompare(sc, calcs, a[j], item) <= 0 THEN j
  ELSE LinearSearch(sc, calcs, a, item, j - 1)

RECURSIVE LinearInsertion(_, _, _, _)
LinearInsertion(sc, calcs, a, start) ==
  IF start >= Len(a) THEN a
  ELSE LET item == a[start + 1]
           pos == LinearSearch(sc, calcs, a, item, start)
       IN LinearInsertion(sc, calcs,
            InsertAt(SubSeq(a, 1, start), pos, item) \o SubSeq(a, start + 2, Len(a)),
            start + 1)

\* result.sort(comparator) on the given engine (line 761)
SortRows(engine, sc, calcs, rows) ==
  IF engine = "binaryInsertion" THEN BinaryInsertionSort(sc, calcs, rows)
  ELSE LinearInsertion(sc, calcs, rows, 1)

\* detectedColumns.category || detectedColumns.account (lines 660, 723)
CategoryColumn(detected) ==
  IF detected.category # NoCol THEN detected.category ELSE detected.account

\* The rows after the three filters (lines 720-758)
FilterRows(rows, detected, fs, category, month) ==
  ColumnFilters(
    MonthFilter(CategoryFilter(rows, CategoryColumn(detected), category),
                detected.date, month),
    fs)

\* The filteredData memo (lines 719-780)
filteredData(engine, rows, detected, fs, sc, category, month, calcs) ==
  IF sc.key # NoCol
  THEN SortRows(engine, sc, calcs, FilterRows(rows, detected, fs, category, month))
  ELSE FilterRows(rows, detected, fs, category, month)

\* The stored rows if the memo sorted `data` itself, without the copy
DataAfterSortInPlace(rows, view) == IF Len(view) = Len(rows) THEN view ELSE rows

\* What tables[activeTable] holds once the memo has run: the memo sorts
\* `result`, the fresh array made by [...data] (line 720), so the stored rows
\* are the ones it was given
DataAfterView(rows, view) == rows

-----------------------------------------------------------------------------
(* The group/aggregate step: categoryBreakdown                             *)

\* String(cat).slice(0, 25) (line 829)
NameLimit == 25

\* groupByColumn || detectedColumns.category || detectedColumns.account
\* (lines 818, 858)
GroupColumn(groupBy, detected) ==
  IF groupBy # NoCol THEN groupBy ELSE CategoryColumn(detected)

\* The entry a group starts with (line 829); key is its property key
NewGroup(cat) ==
  [key |-> String(cat), name |-> FirstN(String(cat), NameLimit),
   value |-> 0, qty |-> 0, count |-> 0, fullName |-> String(cat)]

\* What a row adds to the value of its group (lines 834-839)
RowValue(row, detected, calcs) ==
  IF detected.amount # NoCol /\ detected.quantity # NoCol /\ HasCalc(calcs, "ext_total")
  THEN calculate(FindCalc(calcs, "ext_total"), row).n
  ELSE IF detected.amount # NoCol THEN parseFloatOr0(ObjGet(row, detected.amount))
  ELSE 0

\* What a row adds to the quantity of its group (lines 841-843)
RowQty(row, detected) ==
  IF detected.quantity # NoCol THEN parseFloatOr0(ObjGet(row, detected.quantity)) ELSE 0

HasGroup(breakdown, key) == \E i \in 1..Len(breakdown) : breakdown[i].key = key

\* breakdown[cat] with the row counted in (lines 832-843)
CountRow(breakdown, key, value, qty) ==
  [i \in 1..Len(breakdown) |->
     IF breakdown[i].key = key
     THEN [breakdown[i] EXCEPT !.count = @ + 1, !.value = @ + value, !.qty = @ + qty]
     ELSE breakdown[i]]

\* One row of the forEach (lines 825-844): a row whose cell is falsy is left
\* out
GroupRow(breakdown, row, cat, detected, calcs) ==
  IF ~Truthy(cat) THEN breakdown
  ELSE CountRow(IF HasGroup(breakdown, String(cat)) THEN breakdown
                ELSE Append(breakdown, NewGroup(cat)),
                String(cat), RowValue(row, detected, calcs), RowQty(row, detected))

RECURSIVE GroupRows(_, _, _, _, _)
GroupRows(breakdown, rows, catCol, detected, calcs) ==
  IF rows = <<>> THEN breakdown
  ELSE GroupRows(GroupRow(breakdown, Head(rows), ObjGet(Head(rows), catCol), detected, calcs),
                 Tail(rows), catCol, detected, calcs)

\* A property key that is an array index: a canonical non-negative integer
IsIndexKey(key) ==
  /\ key # <<>>
  /\ \A i \in 1..Len(key) : IsDigit(key[i])
  /\ Len(key) > 1 => key[1] # "0"

\* The entries in ascending order of an integer key
RECURSIVE AscendingByKey(_)
AscendingByKey(entries) ==
  IF entries = <<>> THEN <<>>
  ELSE AscendingByKey(SelectSeq(Tail(entries),
                        LAMBDA e : DigitsVal(e.key) < DigitsVal(Head(entries).key)))
       \o <<Head(entries)>>
       \o AscendingByKey(SelectSeq(Tail(entries),
                           LAMBDA e : DigitsVal(e.key) > DigitsVal(Head(entries).key)))

\* Object.values(breakdown) (line 848): the index keys in ascending order,
\* then the other keys in the order they were created
ObjectValues(breakdown) ==
  AscendingByKey(SelectSeq(breakdown, LAMBDA e : IsIndexKey(e.key)))
  \o SelectSeq(breakdown, LAMBDA e : ~IsIndexKey(e.key))

\* 'count' or 'value' (line 847)
SortKeyOf(entry, aggType) ==
  IF aggType = "count" THEN entry.count ELSE entry.value

\* Where a stable sort by (a, b) => b[sortKey] - a[sortKey] puts an entry
\* among sorted ones: after every entry that is not smaller
RECURSIVE InsertDescending(_, _, _)
InsertDescending(sorted, entry, aggType) ==
  IF sorted = <<>> THEN <<entry>>
  ELSE IF SortKeyOf(Head(sorted), aggType) >= SortKeyOf(entry, aggType)
       THEN <<Head(sorted)>> \o InsertDescending(Tail(sorted), entry, aggType)
       ELSE <<entry>> \o sorted

\* The entries left in the order of Object.values
Unsorted(sorted, entries, aggType) == entries

\* values.sort((a, b) => b[sortKey] - a[sortKey]) (line 848): the comparator
\* is a consistent one and the sort is stable
RECURSIVE SortDescending(_, _, _)
SortDescending(sorted, entries, aggType) ==
  IF entries = <<>> THEN sorted
  ELSE SortDescending(InsertDescending(sorted, Head(entries), aggType),
                      Tail(entries), aggType)

\* topN > 0 ? sorted.slice(0, topN) : sorted (line 850)
TopSlice(sorted, n) == IF n > 0 THEN FirstN(sorted, n) ELSE sorted

\* The categoryBreakdown memo (lines 816-853) over the filtered rows
categoryBreakdown(rows, groupBy, detected, calcs, aggType, n) ==
  IF GroupColumn(groupBy, detected) = NoCol THEN <<>>
  ELSE TopSlice(
         SortDescending(<<>>,
           ObjectValues(GroupRows(<<>>, rows, GroupColumn(groupBy, detected), detected, calcs)),
           aggType),
         n)

-----------------------------------------------------------------------------
(* The time series: timeSeriesData                                         *)

\* The day of a date cell (lines 877-887): the first ISO date in a string;
\* a cell that is not a string has none
DayKey(dateVal) ==
  IF ~Truthy(dateVal) \/ dateVal.t # "string" THEN <<>>
  ELSE IF \E i \in 1..Len(dateVal.s) : HasIsoDateAt(dateVal.s, i)
       THEN SubSeq(dateVal.s,
                   CHOOSE k \in 1..Len(dateVal.s) :
                     /\ HasIsoDateAt(dateVal.s, k)
                     /\ \A m \in 1..(k - 1) : ~HasIsoDateAt(dateVal.s, m),
                   9 + CHOOSE k \in 1..Len(dateVal.s) :
                     /\ HasIsoDateAt(dateVal.s, k)
                     /\ \A m \in 1..(k - 1) : ~HasIsoDateAt(dateVal.s, m))
       ELSE <<>>

\* The category of the series without a grouping column (line 870)
AllSeries == <<"A", "l", "l">>

\* catCol ? row[catCol] : 'All' (line 870)
SeriesCat(row, catCol) == IF catCol # NoCol THEN ObjGet(row, catCol) ELSE Str(AllSeries)

\* topCategories.includes(cat) (line 875): the names are strings and the
\* comparison is strict
IncludesValue(names, v) ==
  v.t = "string" /\ \E i \in 1..Len(names) : names[i] = v.s

\* The rows that pass the early returns of lines 872-889
SeriesRowKept(row, dateCol, catCol, topCategories) ==
  /\ Truthy(ObjGet(row, dateCol))
  /\ ~(catCol # NoCol /\ topCategories # <<>>
       /\ ~IncludesValue(topCategories, SeriesCat(row, catCol)))
  /\ DayKey(ObjGet(row, dateCol)) # <<>>

\* x || 0 of a sum or of an absent property (lines 892, 901)
NumOr0(v) == IF v.t = "number" THEN v.n ELSE 0

\* byDateAndCat[dateStr], created when absent (line 891)
DayOf(byDate, day) == IF ObjHas(byDate, day) THEN ObjGet(byDate, day) ELSE <<>>

\* lines 891-892
AddToDay(byDate, day, key, amount) ==
  ObjSet(byDate, day,
         ObjSet(DayOf(byDate, day), key, Num(NumOr0(ObjGet(DayOf(byDate, day), key)) + amount)))

\* The forEach of lines 868-893
RECURSIVE SeriesRows(_, _, _, _, _, _)
SeriesRows(byDate, rows, dateCol, amountCol, catCol, topCategories) ==
  IF rows = <<>> THEN byDate
  ELSE SeriesRows(
         IF SeriesRowKept(Head(rows), dateCol, catCol, topCategories)
         THEN AddToDay(byDate, DayKey(ObjGet(Head(rows), dateCol)),
                       String(SeriesCat(Head(rows), catCol)),
                       parseFloatOr0(ObjGet(Head(rows), amountCol)))
         ELSE byDate,
         Tail(rows), dateCol, amountCol, catCol, topCategories)

\* [...allDates].sort() (line 895)
RECURSIVE SortedStrings(_)
SortedStrings(set) ==
  IF set = {} THEN <<>>
  ELSE <<CHOOSE s \in set : \A o \in set \ {s} : StrLess(s, o)>>
       \o SortedStrings(set \ {CHOOSE s \in set : \A o \in set \ {s} : StrLess(s, o)})

\* A row of the chart (lines 898-904): the date and a field per category
RECURSIVE ChartRow(_, _, _)
ChartRow(row, categories, day) ==
  IF categories = <<>> THEN row
  ELSE ChartRow(ObjSet(row, Head(categories), Num(NumOr0(ObjGet(day, Head(categories))))),
                Tail(categories), day)

DateField == <<"d", "a", "t", "e">>

ChartData(byDate, sortedDates, categories) ==
  [i \in 1..Len(sortedDates) |->
     ChartRow(<< <<DateField, Str(sortedDates[i])>> >>, categories,
              DayOf(byDate, sortedDates[i]))]

SeriesCategories(topCategories) ==
  IF topCategories # <<>> THEN topCategories ELSE <<AllSeries>>

SeriesOf(byDate, topCategories) ==
  [data |-> ChartData(byDate, SortedStrings(SeqToSet(ObjKeys(byDate))),
                      SeriesCategories(topCategories)),
   categories |-> SeriesCategories(topCategories)]

FullNames(breakdown) == [i \in 1..Len(breakdown) |-> breakdown[i].fullName]

\* The timeSeriesData memo (lines 855-908) over the filtered rows and the
\* categoryBreakdown memo
timeSeriesData(rows, breakdown, groupBy, detected) ==
  IF detected.date = NoCol \/ detected.amount = NoCol
  THEN [data |-> <<>>, categories |-> <<>>]
  ELSE SeriesOf(SeriesRows(<<>>, rows, detected.date, detected.amount,
                           GroupColumn(groupBy, detected), FullNames(breakdown)),
                FullNames(breakdown))

-----------------------------------------------------------------------------
(* The export of the view: exportCSV                                       *)

\* parts.join(sep)
RECURSIVE Join(_, _)
Join(parts, sep) ==
  IF parts = <<>> THEN <<>>
  ELSE IF Len(parts) = 1 THEN parts[1]
  ELSE parts[1] \o sep \o Join(Tail(parts), sep)

\* val.replace(/"/g, '""') (line 942)
RECURSIVE DoubleQuotes(_)
DoubleQuotes(s) ==
  IF s = <<>> THEN <<>>
  ELSE (IF s[1] = "\"" THEN <<"\"", "\"">> ELSE <<s[1]>>) \o DoubleQuotes(Tail(s))

\* The text of one value (lines 940-944); join turns a number into its string
ExportField(val) ==
  IF IsNullish(val) THEN <<>>
  ELSE IF val.t = "string" /\ (includes(val.s, <<",">>) \/ includes(val.s, <<"\"">>))
  THEN <<"\"">> \o DoubleQuotes(val.s) \o <<"\"">>
  ELSE String(val)

\* [...columns, ...calculatedColumns.map(c => c.name)] (line 933)
AllCols(cols, calcs) == cols \o [i \in 1..Len(calcs) |-> calcs[i].name]

\* calcCol ? calcCol.calculate(row) : row[col] (lines 938-939)
ExportValue(row, col, calcs) ==
  IF HasCalc(calcs, col) THEN calculate(FindCalc(calcs, col), row) ELSE ObjGet(row, col)

\* values.join(',') of one row (lines 937-946)
ExportRow(row, allCols, calcs) ==
  Join([j \in 1..Len(allCols) |-> ExportField(ExportValue(row, allCols[j], calcs))], <<",">>)

\* csvRows.join('\n') (lines 934-948)
ExportText(cols, calcs, view) ==
  Join(<< Join([j \in 1..Len(AllCols(cols, calcs)) |-> NameChars[AllCols(cols, calcs)[j]]],
               <<",">>) >>
       \o [i \in 1..Len(view) |-> ExportRow(view[i], AllCols(cols, calcs), calcs)],
       <<"\n">>)

-----------------------------------------------------------------------------
(* The load from a URL: handleURLFetch                                     *)
(*                                                                         *)
(* A request in flight carries the answer the network will give to it: the *)
(* rejection of fetch with the message of the browser, a response that is  *)
(* not ok, an empty body, or a body.  The message of a rejected fetch is    *)
(* the browser's: "Failed to fetch" (Chromium), "NetworkError when          *)
(* attempting to fetch resource." (Gecko), "Load failed" (WebKit).          *)

FailedToFetch ==
  <<"F", "a", "i", "l", "e", "d", " ", "t", "o", " ", "f", "e", "t", "c",
    "h">>

NetworkError ==
  <<"N", "e", "t", "w", "o", "r", "k", "E", "r", "r", "o", "r">>

ChromiumMessage ==
  <<"F", "a", "i", "l", "e", "d", " ", "t", "o", " ", "f", "e", "t", "c",
    "h">>

GeckoMessage ==
  <<"N", "e", "t", "w", "o", "r", "k", "E", "r", "r", "o", "r", " ", "w",
    "h", "e", "n", " ", "a", "t", "t", "e", "m", "p", "t", "i", "n", "g",
    " ", "t", "o", " ", "f", "e", "t", "c", "h", " ", "r", "e", "s", "o",
    "u", "r", "c", "e", ".">>

WebKitMessage ==
  <<"L", "o", "a", "d", " ", "f", "a", "i", "l", "e", "d">>

\* The message of line 614
CorsMessage ==
  <<"C", "O", "R", "S", " ", "b", "l", "o", "c", "k", "e", "d", " ", "o",
    "r", " ", "n", "e", "t", "w", "o", "r", "k", " ", "e", "r", "r", "o",
    "r", ".", " ", "T", "r", "y", " ", "a", " ", "d", "i", "r", "e", "c",
    "t", " ", "f", "i", "l", "e", " ", "l", "i", "n", "k", " ", "(", "r",
    "a", "w", " ", "G", "i", "t", "H", "u", "b", ",", " ", "p", "u", "b",
    "l", "i", "c", " ", "C", "S", "V", ")", " ", "o", "r", " ", "d", "o",
    "w", "n", "l", "o", "a", "d", " ", "a", "n", "d", " ", "u", "p", "l",
    "o", "a", "d", " ", "i", "n", "s", "t", "e", "a", "d", ".">>

\* `HTTP ${response.status}: ${response.statusText}` of a 404 (line 589)
HttpMessage ==
  <<"H", "T", "T", "P", " ", "4", "0", "4", ":", " ", "N", "o", "t", " ",
    "F", "o", "u", "n", "d">>

\* line 595
EmptyMessage ==
  <<"E", "m", "p", "t", "y", " ", "r", "e", "s", "p", "o", "n", "s", "e",
    " ", "r", "e", "c", "e", "i", "v", "e", "d">>

\* The message of the TypeError of new URL(...) (line 569)
InvalidUrlMessage ==
  <<"I", "n", "v", "a", "l", "i", "d", " ", "U", "R", "L">>

\* The message of the TypeError of line 346
TypeErrorMessage ==
  <<"C", "a", "n", "n", "o", "t", " ", "r", "e", "a", "d", " ", "p", "r",
    "o", "p", "e", "r", "t", "i", "e", "s", " ", "o", "f", " ", "u", "n",
    "d", "e", "f", "i", "n", "e", "d", " ", "(", "r", "e", "a", "d", "i",
    "n", "g", " ", "'", "p", "u", "s", "h", "'", ")">>

\* errorMsg of the catch block (lines 611-615)
ErrorMessage(message) ==
  IF includes(message, FailedToFetch) \/ includes(message, NetworkError)
  THEN CorsMessage
  ELSE message

\* What the try block throws for an answer (lines 586-596), <<>> when the
\* body reaches processContent
Thrown(response) ==
  CASE response.kind = "rejected" -> response.message
    [] response.kind = "notOk" -> HttpMessage
    [] response.kind = "empty" -> EmptyMessage
    [] response.kind = "body" /\ response.file.ext = "sql" /\ ParseRaises(response.file.content)
         -> TypeErrorMessage
    [] OTHER -> <<>>

-----------------------------------------------------------------------------
(* CSV loading                                                             *)
(*                                                                         *)
(* A delimited file is represented by what Papa.parse hands over: the      *)
(* header fields and one object of strings per line.                       *)

\* processCSVResults(results, name) (lines 543-557); name is the table name
\* the file name slugs to
CsvLoaded(results, p) ==
  [tables |-> << <<results.name, p.processedData>> >>,
   activeTable |-> results.name,
   columns |-> results.fields,
   columnTypes |-> p.types,
   logs |-> << LogLine("loadedRows", Len(p.processedData), 0, "") >>]

processCSVResults(results) ==
  CsvLoaded(results, processTableData(results.data, results.fields))

-----------------------------------------------------------------------------
(* Dashboard summaries, as far as the drill-down needs them                *)

\* The entries of byCard (lines 60-77): one per property key, holding the
\* card_id of the first transaction with that key
RECURSIVE CardEntries(_, _)
CardEntries(joined, seen) ==
  IF joined = <<>> THEN <<>>
  ELSE LET cardId == ObjGet(Head(joined), "card_id")
       IN IF String(cardId) \in seen THEN CardEntries(Tail(joined), seen)
          ELSE <<cardId>> \o CardEntries(Tail(joined), seen \cup {String(cardId)})

\* The entries of byProgram (lines 98-127), keyed by progId || 'unknown'
RECURSIVE ProgramEntries(_, _)
ProgramEntries(joined, seen) ==
  IF joined = <<>> THEN <<>>
  ELSE LET progId == ObjGet(Head(joined), "card_program_id")
           key == String(OrElse(progId, Str(<<"u", "n", "k", "n", "o", "w", "n">>)))
       IN IF key \in seen THEN ProgramEntries(Tail(joined), seen)
          ELSE << [card_program_id |-> progId,
                   card_program_name |-> ObjGet(Head(joined), "card_program_name")] >>
               \o ProgramEntries(Tail(joined), seen \cup {key})

\* amountPatterns (line 41)
amountPatterns ==
  << <<"a", "m", "o", "u", "n", "t">>, <<"t", "o", "t", "a", "l">>,
     <<"p", "r", "i", "c", "e">>, <<"c", "o", "s", "t">>,
     <<"s", "p", "e", "n", "d">>, <<"v", "a", "l", "u", "e">> >>

\* amountPatterns.some(p => colLower.includes(p)) (lines 44-45)
HasAmountName(col) ==
  \E i \in 1..Len(amountPatterns) : includes(toLowerCase(NameChars[col]), amountPatterns[i])

\* joined.slice(0, 10) (line 47)
AmountSample == 10

\* sample.some(v => !isNaN(parseFloat(v))) (lines 47-48)
HasAmountCell(joined, col) ==
  \E i \in 1..Len(joined) : i <= AmountSample /\ ~parseFloat(ObjGet(joined[i], col)).nan

\* The amountColumn memo (lines 35-53), none for null
amountColumn(joined) ==
  IF joined = <<>> THEN NoCol
  ELSE FirstCol(SelectSeq(ObjKeys(joined[1]),
                          LAMBDA col : HasAmountName(col) /\ HasAmountCell(joined, col)))

\* amountColumn ? parseFloat(txn[amountColumn]) || 0 : 0 (lines 74, 116)
AmountOf(txn, amountCol) ==
  IF amountCol = NoCol THEN 0 ELSE parseFloatOr0(ObjGet(txn, amountCol))

\* by[key], as the position of the entry, 0 when there is none
EntryAt(by, key) ==
  IF \E i \in 1..Len(by) : by[i].key = key
  THEN CHOOSE i \in 1..Len(by) : by[i].key = key
  ELSE 0

\* The entry a transaction creates in byCard (lines 64-70)
NewCard(txn) ==
  [key |-> String(ObjGet(txn, "card_id")),
   card_id |-> ObjGet(txn, "card_id"),
   card_program_id |-> ObjGet(txn, "card_program_id"),
   card_program_name |-> ObjGet(txn, "card_program_name"),
   transaction_count |-> 0,
   total_spend |-> 0]

\* byCard[cardId].transaction_count++ and total_spend += amt (lines 72-75)
Counted1(entry, amt) ==
  [entry EXCEPT !.transaction_count = @ + 1, !.total_spend = @ + amt]

\* One transaction of the forEach of cardSummariesRaw (lines 61-76): a
\* property key is the string form of the card_id
CardStep(byCard, txn, amountCol) ==
  IF EntryAt(byCard, String(ObjGet(txn, "card_id"))) = 0
  THEN Append(byCard, Counted1(NewCard(txn), AmountOf(txn, amountCol)))
  ELSE [byCard EXCEPT ![EntryAt(byCard, String(ObjGet(txn, "card_id")))] =
                        Counted1(@, AmountOf(txn, amountCol))]

RECURSIVE CardLoop(_, _, _)
CardLoop(joined, byCard, amountCol) ==
  IF joined = <<>> THEN byCard
  ELSE CardLoop(Tail(joined), CardStep(byCard, Head(joined), amountCol), amountCol)

\* The cardSummariesRaw memo (lines 56-79)
cardSummariesRaw(ts) ==
  ObjectValues(CardLoop(TableOf(ts, "transactions_joined"), <<>>,
                        amountColumn(TableOf(ts, "transactions_joined"))))

\* progId || 'unknown' as a property key (line 104)
ProgramKey(txn) ==
  String(OrElse(ObjGet(txn, "card_program_id"), Str(<<"u", "n", "k", "n", "o", "w", "n">>)))

\* The entry a transaction creates in byProgram (lines 107-114); cards is
\* cardsByProgram[key]
NewProgram(txn) ==
  [key |-> ProgramKey(txn),
   card_program_id |-> ObjGet(txn, "card_program_id"),
   card_program_name |-> ObjGet(txn, "card_program_name"),
   transaction_count |-> 0,
   total_spend |-> 0,
   cards |-> <<>>]

\* lines 116-119
CountedProgram(entry, txn, amountCol) ==
  [entry EXCEPT !.transaction_count = @ + 1,
                !.total_spend = @ + AmountOf(txn, amountCol),
                !.cards = SetAdd(@, ObjGet(txn, "card_id"))]

\* One transaction of the forEach of programSummariesRaw (lines 101-120)
ProgramStep(byProgram, txn, amountCol) ==
  IF EntryAt(byProgram, ProgramKey(txn)) = 0
  THEN Append(byProgram, CountedProgram(NewProgram(txn), txn, amountCol))
  ELSE [byProgram EXCEPT ![EntryAt(byProgram, ProgramKey(txn))] =
                           CountedProgram(@, txn, amountCol)]

RECURSIVE ProgramLoop(_, _, _)
ProgramLoop(joined, byProgram, amountCol) ==
  IF joined = <<>> THEN byProgram
  ELSE ProgramLoop(Tail(joined), ProgramStep(byProgram, Head(joined), amountCol), amountCol)

\* The programSummariesRaw memo (lines 94-128)
programSummariesRaw(ts) ==
  ObjectValues(ProgramLoop(TableOf(ts, "transactions_joined"), <<>>,
                           amountColumn(TableOf(ts, "transactions_joined"))))

\* The cardSummaries memo (lines 81-92) on the given engine
cardSummaries(engine, ts, sort) == SortRows(engine, sort.cards, <<>>, cardSummariesRaw(ts))

\* The programSummaries memo (lines 131-142) on the given engine
programSummaries(engine, ts, sort) ==
  SortRows(engine, sort.programs, <<>>, programSummariesRaw(ts))

\* joined.filter(txn => txn.card_id === drilldown.cardId) (lines 145-156)
drilldownDataRaw(ts, d) ==
  IF d.level = "card" /\ d.cardId # Null
  THEN SelectSeq(TableOf(ts, "transactions_joined"),
                 LAMBDA txn : ObjGet(txn, "card_id") = d.cardId)
  ELSE IF d.level = "program" /\ d.programId # Null
  THEN SelectSeq(TableOf(ts, "transactions_joined"),
                 LAMBDA txn : ObjGet(txn, "card_program_id") = d.programId)
  ELSE <<>>

-----------------------------------------------------------------------------
(* The state of the component                                              *)

NoSort == [key |-> NoCol, direction |-> "asc"]
NoText == [empty |-> TRUE, blocks |-> <<>>, text |-> <<>>]
Overview == [level |-> "overview", cardId |-> Null, programId |-> Null, programName |-> Null]
\* No export has been made
NoDownload == <<>>

\* useState('') of loadError and urlInput (lines 19, 21)
NoError == <<>>
NoUrl == ""

\* The programs and cards parts of the useState value of line 30
DefaultDashboardSort ==
  [programs |-> [key |-> "total_spend", dir |-> "desc"],
   cards |-> [key |-> "total_spend", dir |-> "desc"]]

NoStats == [matchedCards |-> 0, matchedPrograms |-> 0, unmatchedCardIds |-> <<>>, totalTxns |-> 0]

\* useState(10) (line 27)
DefaultTopN == 10

\* The useState initial values (lines 8-30)
InitState ==
  /\ tables = <<>>
  /\ activeTable = ""
  /\ columns = <<>>
  /\ columnTypes = <<>>
  /\ filters = <<>>
  /\ selectedCategory = All
  /\ sortConfig = NoSort
  /\ activeView = "table"
  /\ parseLog = <<>>
  /\ calculatedColumns = <<>>
  /\ selectedMonth = All
  /\ groupByColumn = NoCol
  /\ aggregationType = "sum"
  /\ topN = DefaultTopN
  /\ drilldown = Overview
  /\ dashboardSort = DefaultDashboardSort
  /\ urlInput = NoUrl
  /\ isLoading = FALSE
  /\ loadError = NoError
  /\ joinStats = NoStats
  /\ pendingReads = <<>>
  /\ fetches = <<>>
  /\ download = NoDownload
  /\ steps = 0

\* const data = useMemo(() => tables[activeTable] || [], ...) (line 32)
data == TableOf(tables, activeTable)

\* line 657
detectedColumns == detectSpecialColumns(columns, columnTypes)

\* The filteredData memo of the current state on the given engine
View(engine) ==
  filteredData(engine, data, detectedColumns, filters, sortConfig,
               selectedCategory, selectedMonth, calculatedColumns)

\* The categoryBreakdown memo of the current state on the given engine
Breakdown(engine) ==
  categoryBreakdown(View(engine), groupByColumn, detectedColumns, calculatedColumns,
                    aggregationType, topN)

\* The timeSeriesData memo of the current state on the given engine
TimeSeries(engine) ==
  timeSeriesData(View(engine), Breakdown(engine), groupByColumn, detectedColumns)

\* The table collection after the render that follows a state change: the
\* memo is recomputed from the new state
Rendered(engine, ts) ==
  IF HasTable(ts, activeTable')
  THEN ObjSet(ts, activeTable',
         DataAfterView(TableOf(ts, activeTable'),
           filteredData(engine, TableOf(ts, activeTable'),
                        detectSpecialColumns(columns', columnTypes'),
                        filters', sortConfig', selectedCategory', selectedMonth',
                        calculatedColumns')))
  ELSE ts

Render(ts) == \E engine \in Engines : tables' = Rendered(engine, ts)

\* The options of the category select (lines 659-663, 1423)
CategoriesOf(rows, catCol) ==
  IF catCol = NoCol THEN {}
  ELSE {String(ObjGet(rows[i], catCol)) :
          i \in {k \in 1..Len(rows) : Truthy(ObjGet(rows[k], catCol))}}

CategoryOptions == CategoriesOf(data, CategoryColumn(detectedColumns))

\* The options of the month select (lines 666-693)
MonthsOf(rows, dateCol) ==
  IF dateCol = NoCol THEN {}
  ELSE {MonthKey(ObjGet(rows[i], dateCol)) : i \in 1..Len(rows)} \ {<<>>}

MonthOptions == MonthsOf(data, detectedColumns.date)

-----------------------------------------------------------------------------
(* Handlers                                                                *)

\* What processContent(content, 'sql', name) writes, but for the tables
\* (lines 515-530)
WriteSqlState(r) ==
     /\ parseLog' = r.logs
     /\ IF r.found
        THEN /\ activeTable' = r.activeTable
             /\ columns' = r.columns
             /\ columnTypes' = r.columnTypes
             /\ filters' = <<>>
             /\ selectedCategory' = All
             /\ joinStats' = IF r.joined
                             THEN [matchedCards |-> r.join.matchedCards,
                                   matchedPrograms |-> r.join.matchedPrograms,
                                   unmatchedCardIds |-> r.join.unmatchedCardIds,
                                   totalTxns |-> Len(r.join.joinedData)]
                             ELSE joinStats
             /\ IF r.joined
                THEN activeView' = "dashboard" /\ drilldown' = Overview
                ELSE UNCHANGED <<activeView, drilldown>>
        ELSE UNCHANGED <<activeTable, columns, columnTypes, filters,
                         selectedCategory, joinStats, activeView, drilldown>>

\* setTables(parsedTables) of processContent (line 515)
SqlTables(r) == IF r.found THEN r.tables ELSE tables

\* What processCSVResults writes, but for the tables (lines 550-556)
WriteCsvState(r) ==
     /\ parseLog' = r.logs
     /\ activeTable' = r.activeTable
     /\ columns' = r.columns
     /\ columnTypes' = r.columnTypes
     /\ filters' = <<>>
     /\ selectedCategory' = All
     /\ UNCHANGED <<joinStats, activeView, drilldown>>

\* processContent and processCSVResults from their results on
LoadSql(r) == WriteSqlState(r) /\ Render(SqlTables(r))
LoadCsv(r) == WriteCsvState(r) /\ Render(r.tables)

\* onChange of the paste box (line 1222), shown while no table is loaded
setSqlPasteInput(content) ==
  /\ Len(tables) = 0
  /\ sqlPasteInput' = [empty |-> FALSE, blocks |-> content, text |-> <<>>]
  /\ UNCHANGED <<activeTable, columns, columnTypes, filters, selectedCategory,
                 sortConfig, activeView, parseLog, calculatedColumns, selectedMonth,
                 groupByColumn, aggregationType, topN, drilldown, joinStats,
                 pendingReads>>
  /\ Render(tables)
  /\ UNCHANGED <<dashboardSort, urlInput, isLoading, loadError, fetches, download>>

\* The INSERT statements of a pasted content: those of a text are found by
\* the scan, character by character; the other contents are given by their
\* statements
Statements(input) == IF input.text # <<>> THEN ScanSql(input.text) ELSE input.blocks

\* lines 624-635
handlePasteSQL ==
  /\ Len(tables) = 0
  /\ ~sqlPasteInput.empty
  /\ calculatedColumns' = <<>>
  /\ UNCHANGED <<sortConfig, selectedMonth, groupByColumn, aggregationType, topN,
                 pendingReads>>
  /\ IF ParseRaises(Statements(sqlPasteInput))
     THEN \* the setters called before processContent (lines 627-630) take
          \* effect, the statements after it (lines 633-634) are not reached
          /\ parseLog' = <<>>
          /\ UNCHANGED <<sqlPasteInput, activeTable, columns, columnTypes, filters,
                         selectedCategory, joinStats, activeView, drilldown>>
          /\ Render(tables)
     ELSE /\ sqlPasteInput' = NoText
          /\ LoadSql(processContent(Statements(sqlPasteInput)))
  /\ loadError' = NoError
  /\ UNCHANGED <<dashboardSort, urlInput, isLoading, fetches, download>>

\* lines 390-416: the read and the parse of the file complete later
handleFileUpload(file) ==
  /\ parseLog' = <<>>
  /\ calculatedColumns' = <<>>
  /\ pendingReads' = Append(pendingReads, file)
  /\ UNCHANGED <<activeTable, columns, columnTypes, filters, selectedCategory,
                 sortConfig, activeView, sqlPasteInput, selectedMonth,
                 groupByColumn, aggregationType, topN, drilldown, joinStats>>
  /\ Render(tables)
  /\ loadError' = NoError
  /\ UNCHANGED <<dashboardSort, urlInput, isLoading, fetches, download>>

\* reader.onload (lines 402-405) or Papa's complete (lines 411-413) of the
\* i-th pending read
fileReadComplete(i) ==
  /\ i \in 1..Len(pendingReads)
  /\ pendingReads' = SubSeq(pendingReads, 1, i - 1) \o SubSeq(pendingReads, i + 1, Len(pendingReads))
  /\ UNCHANGED <<sortConfig, calculatedColumns, sqlPasteInput, selectedMonth,
                 groupByColumn, aggregationType, topN>>
  /\ IF pendingReads[i].ext = "sql" /\ ParseRaises(pendingReads[i].content)
     THEN \* the callback ends in parseSQLFile, before any setter
          /\ UNCHANGED <<parseLog, activeTable, columns, columnTypes, filters,
                         selectedCategory, joinStats, activeView, drilldown>>
          /\ Render(tables)
     ELSE IF pendingReads[i].ext = "sql"
     THEN LoadSql(processContent(pendingReads[i].content))
     ELSE LoadCsv(processCSVResults(pendingReads[i].results))
  /\ UNCHANGED <<dashboardSort, urlInput, isLoading, loadError, fetches, download>>

\* urlInput.trim() is empty (lines 560, 1175)
IsBlank(url) == url \in {"", " "}

\* new URL(urlInput.trim()) does not throw (line 569): the text is an
\* absolute URL
IsValidUrl(url) == url = "https://example.com/data"

\* onChange of the URL box (line 1168), shown while no table is loaded
setUrlInput(url) ==
  /\ Len(tables) = 0
  /\ urlInput' = url
  /\ UNCHANGED <<activeTable, columns, columnTypes, filters, selectedCategory,
                 sortConfig, activeView, parseLog, calculatedColumns, sqlPasteInput,
                 selectedMonth, groupByColumn, aggregationType, topN, drilldown,
                 joinStats, pendingReads, dashboardSort, isLoading, loadError,
                 fetches, download>>
  /\ Render(tables)

\* The Load URL button is disabled while a fetch is loading or the box is
\* blank (line 1175)
ButtonEnabled == ~isLoading /\ ~IsBlank(urlInput)

\* The control that triggers handleURLFetch is usable: the button under the
\* condition of line 1175, the Enter key of the box always (line 1169)
TriggerEnabled(trigger) == IF trigger = "click" THEN ButtonEnabled ELSE TRUE

\* handleURLFetch up to its first await (lines 559-584), triggered by the
\* button or by Enter in the URL box; response is the answer the request
\* will get
handleURLFetch(trigger, response) ==
  /\ Len(tables) = 0
  /\ TriggerEnabled(trigger)
  /\ IF IsBlank(urlInput)
     THEN UNCHANGED <<isLoading, loadError, parseLog, calculatedColumns, fetches>>
     ELSE /\ calculatedColumns' = <<>>
          /\ IF IsValidUrl(urlInput)
             THEN /\ isLoading' = TRUE
                  /\ loadError' = NoError
                  /\ parseLog' = << LogLine("fetching", 0, 0, "") >>
                  /\ fetches' = Append(fetches, [url |-> urlInput, response |-> response])
             ELSE \* new URL throws: the catch and the finally block run at once
                  /\ isLoading' = FALSE
                  /\ loadError' = ErrorMessage(InvalidUrlMessage)
                  /\ parseLog' = << LogLine("error", 0, 0, "") >>
                  /\ fetches' = fetches
  /\ UNCHANGED <<activeTable, columns, columnTypes, filters, selectedCategory,
                 sortConfig, activeView, sqlPasteInput, selectedMonth, groupByColumn,
                 aggregationType, topN, drilldown, joinStats, pendingReads,
                 dashboardSort, urlInput, download>>
  /\ Render(tables)

\* The rest of handleURLFetch (lines 584-621) once the i-th request in flight
\* is answered
fetchComplete(i) ==
  /\ i \in 1..Len(fetches)
  /\ fetches' = SubSeq(fetches, 1, i - 1) \o SubSeq(fetches, i + 1, Len(fetches))
  /\ isLoading' = FALSE
  /\ UNCHANGED <<sortConfig, calculatedColumns, sqlPasteInput, selectedMonth,
                 groupByColumn, aggregationType, topN, pendingReads, dashboardSort,
                 urlInput, download>>
  /\ IF Thrown(fetches[i].response) # <<>>
     THEN /\ loadError' = ErrorMessage(Thrown(fetches[i].response))
          /\ parseLog' = parseLog
                         \o (IF fetches[i].response.kind = "body"
                             THEN << LogLine("downloaded", 0, 0, "") >> ELSE <<>>)
                         \o << LogLine("error", 0, 0, "") >>
          /\ UNCHANGED <<activeTable, columns, columnTypes, filters,
                         selectedCategory, joinStats, activeView, drilldown>>
          /\ Render(tables)
     ELSE /\ UNCHANGED loadError
          /\ IF fetches[i].response.file.ext = "sql"
             THEN LoadSql(processContent(fetches[i].response.file.content))
             ELSE LoadCsv(processCSVResults(fetches[i].response.file.results))

\* lines 637-655; the tabs are shown when there are several tables
switchTable(tableName) ==
  /\ Len(tables) > 1
  /\ HasTable(tables, tableName)
  /\ Len(TableOf(tables, tableName)) > 0
  /\ activeTable' = tableName
  /\ columns' = ColumnsOf(TableOf(tables, tableName))
  /\ columnTypes' = ClassifyColumns(TableOf(tables, tableName),
                                    ColumnsOf(TableOf(tables, tableName)))
  /\ filters' = <<>>
  /\ selectedCategory' = All
  /\ sortConfig' = NoSort
  /\ calculatedColumns' = <<>>
  /\ UNCHANGED <<activeView, parseLog, sqlPasteInput, selectedMonth, groupByColumn,
                 aggregationType, topN, drilldown, joinStats, pendingReads>>
  /\ Render(tables)
  /\ UNCHANGED <<dashboardSort, urlInput, isLoading, loadError, fetches, download>>

\* lines 910-915, from the headers of the table view (lines 1783, 1793)
handleSort(key) ==
  /\ Len(tables) > 0
  /\ activeView = "table"
  /\ \/ \E i \in 1..Len(columns) : columns[i] = key
     \/ HasCalc(calculatedColumns, key)
  /\ sortConfig' = [key |-> key,
                    direction |-> IF sortConfig.key = key /\ sortConfig.direction = "asc"
                                  THEN "desc" ELSE "asc"]
  /\ UNCHANGED <<activeTable, columns, columnTypes, filters, selectedCategory,
                 activeView, parseLog, calculatedColumns, sqlPasteInput, selectedMonth,
                 groupByColumn, aggregationType, topN, drilldown, joinStats,
                 pendingReads>>
  /\ Render(tables)
  /\ UNCHANGED <<dashboardSort, urlInput, isLoading, loadError, fetches, download>>

\* onChange of a filter box (line 1446): the first three columns have one
setFilter(col, value) ==
  /\ Len(tables) > 0
  /\ \E i \in 1..Len(columns) : i <= 3 /\ columns[i] = col
  /\ filters' = ObjSet(filters, col, value)
  /\ UNCHANGED <<activeTable, columns, columnTypes, selectedCategory, sortConfig,
                 activeView, parseLog, calculatedColumns, sqlPasteInput, selectedMonth,
                 groupByColumn, aggregationType, topN, drilldown, joinStats,
                 pendingReads>>
  /\ Render(tables)
  /\ UNCHANGED <<dashboardSort, urlInput, isLoading, loadError, fetches, download>>

\* onChange of the category select (line 1419)
setSelectedCategory(category) ==
  /\ Len(tables) > 0
  /\ CategoryOptions # {}
  /\ category \in CategoryOptions \cup {All}
  /\ selectedCategory' = category
  /\ UNCHANGED <<activeTable, columns, columnTypes, filters, sortConfig,
                 activeView, parseLog, calculatedColumns, sqlPasteInput, selectedMonth,
                 groupByColumn, aggregationType, topN, drilldown, joinStats,
                 pendingReads>>
  /\ Render(tables)
  /\ UNCHANGED <<dashboardSort, urlInput, isLoading, loadError, fetches, download>>

\* onChange of the month select (line 1431)
setSelectedMonth(month) ==
  /\ Len(tables) > 0
  /\ MonthOptions # {}
  /\ month \in MonthOptions \cup {All}
  /\ selectedMonth' = month
  /\ UNCHANGED <<activeTable, columns, columnTypes, filters, selectedCategory,
                 sortConfig, activeView, parseLog, calculatedColumns, sqlPasteInput,
                 groupByColumn, aggregationType, topN, drilldown, joinStats,
                 pendingReads>>
  /\ Render(tables)
  /\ UNCHANGED <<dashboardSort, urlInput, isLoading, loadError, fetches, download>>

\* The Clear All button (line 1451)
clearAll ==
  /\ Len(tables) > 0
  /\ \/ \E i \in 1..Len(filters) : filters[i][2] # <<>>
     \/ selectedMonth # All
     \/ selectedCategory # All
  /\ filters' = <<>>
  /\ selectedMonth' = All
  /\ selectedCategory' = All
  /\ UNCHANGED <<activeTable, columns, columnTypes, sortConfig,
                 activeView, parseLog, calculatedColumns, sqlPasteInput,
                 groupByColumn, aggregationType, topN, drilldown, joinStats,
                 pendingReads>>
  /\ Render(tables)
  /\ UNCHANGED <<dashboardSort, urlInput, isLoading, loadError, fetches, download>>

\* The view buttons (lines 1457-1479); the dashboard button needs the joined
\* table and returns the drill-down to the overview
setActiveView(view) ==
  /\ Len(tables) > 0
  /\ view = "dashboard" => HasTable(tables, "transactions_joined")
  /\ activeView' = view
  /\ drilldown' = IF view = "dashboard" THEN Overview ELSE drilldown
  /\ UNCHANGED <<activeTable, columns, columnTypes, filters, selectedCategory,
                 sortConfig, parseLog, calculatedColumns, sqlPasteInput, selectedMonth,
                 groupByColumn, aggregationType, topN, joinStats, pendingReads>>
  /\ Render(tables)
  /\ UNCHANGED <<dashboardSort, urlInput, isLoading, loadError, fetches, download>>

\* The chart controls (lines 1483-1527), shown in the charts view
setGroupByColumn(col) ==
  /\ Len(tables) > 0
  /\ activeView = "charts"
  /\ col = NoCol \/ \E i \in 1..Len(columns) : columns[i] = col
  /\ groupByColumn' = col
  /\ UNCHANGED <<activeTable, columns, columnTypes, filters, selectedCategory,
                 sortConfig, activeView, parseLog, calculatedColumns, sqlPasteInput,
                 selectedMonth, aggregationType, topN, drilldown, joinStats,
                 pendingReads>>
  /\ Render(tables)
  /\ UNCHANGED <<dashboardSort, urlInput, isLoading, loadError, fetches, download>>

setAggregationType(type) ==
  /\ Len(tables) > 0
  /\ activeView = "charts"
  /\ aggregationType' = type
  /\ UNCHANGED <<activeTable, columns, columnTypes, filters, selectedCategory,
                 sortConfig, activeView, parseLog, calculatedColumns, sqlPasteInput,
                 selectedMonth, groupByColumn, topN, drilldown, joinStats,
                 pendingReads>>
  /\ Render(tables)
  /\ UNCHANGED <<dashboardSort, urlInput, isLoading, loadError, fetches, download>>

setTopN(n) ==
  /\ Len(tables) > 0
  /\ activeView = "charts"
  /\ topN' = n
  /\ UNCHANGED <<activeTable, columns, columnTypes, filters, selectedCategory,
                 sortConfig, activeView, parseLog, calculatedColumns, sqlPasteInput,
                 selectedMonth, groupByColumn, aggregationType, drilldown, joinStats,
                 pendingReads>>
  /\ Render(tables)
  /\ UNCHANGED <<dashboardSort, urlInput, isLoading, loadError, fetches, download>>

\* newCalcCol (lines 706-711)
ExtTotal(detected) ==
  [name |-> "ext_total", qtyCol |-> detected.quantity, priceCol |-> detected.amount]

\* The calculated columns after a handler that does not look for an
\* ext_total column before it adds one
WithExtTotalAgain(calcs, detected) ==
  IF detected.quantity # NoCol /\ detected.amount # NoCol
  THEN Append(calcs, ExtTotal(detected))
  ELSE calcs

\* The calculated columns after the handler (lines 702-716)
WithExtTotal(calcs, detected) ==
  IF detected.quantity # NoCol /\ detected.amount # NoCol
  THEN IF ~HasCalc(calcs, "ext_total") THEN Append(calcs, ExtTotal(detected)) ELSE calcs
  ELSE calcs

\* lines 701-717: the handler of the button of line 1327, whenever it is
\* triggered while a table is loaded
addCalculatedColumn ==
  /\ Len(tables) > 0
  /\ calculatedColumns' = WithExtTotal(calculatedColumns, detectedColumns)
  /\ UNCHANGED <<activeTable, columns, columnTypes, filters, selectedCategory,
                 sortConfig, activeView, parseLog, sqlPasteInput, selectedMonth,
                 groupByColumn, aggregationType, topN, drilldown, joinStats,
                 pendingReads>>
  /\ Render(tables)
  /\ UNCHANGED <<dashboardSort, urlInput, isLoading, loadError, fetches, download>>

DashboardShown ==
  Len(tables) > 0 /\ activeView = "dashboard" /\ HasTable(tables, "transactions_joined")

\* The overview tables shown also above a drill-down
OverviewAtAnyLevel == DashboardShown

\* The overview tables are rendered at the overview level only (line 1592)
OverviewShown == DashboardShown /\ drilldown.level = "overview"

\* A row of the cards table of the overview (line 1691)
drillIntoCard(cardId) ==
  /\ OverviewShown
  /\ cardId \in SeqToSet(CardEntries(TableOf(tables, "transactions_joined"), {}))
  /\ drilldown' = [level |-> "card", cardId |-> cardId, programId |-> Null,
                   programName |-> Null]
  /\ UNCHANGED <<activeTable, columns, columnTypes, filters, selectedCategory,
                 sortConfig, activeView, parseLog, calculatedColumns, sqlPasteInput,
                 selectedMonth, groupByColumn, aggregationType, topN, joinStats,
                 pendingReads>>
  /\ Render(tables)
  /\ UNCHANGED <<dashboardSort, urlInput, isLoading, loadError, fetches, download>>

\* A row of the programs table of the overview (lines 1632-1635)
drillIntoProgram(prog) ==
  /\ OverviewShown
  /\ prog \in SeqToSet(ProgramEntries(TableOf(tables, "transactions_joined"), {}))
  /\ prog.card_program_name # UnknownProgram
  /\ drilldown' = [level |-> "program", cardId |-> Null,
                   programId |-> prog.card_program_id,
                   programName |-> prog.card_program_name]
  /\ UNCHANGED <<activeTable, columns, columnTypes, filters, selectedCategory,
                 sortConfig, activeView, parseLog, calculatedColumns, sqlPasteInput,
                 selectedMonth, groupByColumn, aggregationType, topN, joinStats,
                 pendingReads>>
  /\ Render(tables)
  /\ UNCHANGED <<dashboardSort, urlInput, isLoading, loadError, fetches, download>>

\* lines 932-956: the Export button of the header (line 1127), taken here
\* while a table is loaded; the text of the blob is what the browser is given
exportCSV ==
  /\ Len(tables) > 0
  /\ \E engine \in Engines :
       download' = ExportText(columns, calculatedColumns, View(engine))
  /\ UNCHANGED <<activeTable, columns, columnTypes, filters, selectedCategory,
                 sortConfig, activeView, parseLog, calculatedColumns, sqlPasteInput,
                 selectedMonth, groupByColumn, aggregationType, topN, drilldown,
                 joinStats, pendingReads, dashboardSort, urlInput, isLoading,
                 loadError, fetches>>
  /\ Render(tables)

\* The direction a header click gives (lines 1607-1625, 1663-1681): the name
\* columns start ascending, the counts descending
HeaderDir(current, key) ==
  IF key \in {"card_id", "card_program_name"}
  THEN (IF current.key = key /\ current.dir = "asc" THEN "desc" ELSE "asc")
  ELSE (IF current.key = key /\ current.dir = "desc" THEN "asc" ELSE "desc")

\* A header of the cards table of the overview (lines 1663-1681)
sortCards(key) ==
  /\ OverviewShown
  /\ key \in {"card_id", "card_program_name", "transaction_count", "total_spend"}
  /\ dashboardSort' = [dashboardSort EXCEPT
                         !.cards = [key |-> key, dir |-> HeaderDir(dashboardSort.cards, key)]]
  /\ UNCHANGED <<activeTable, columns, columnTypes, filters, selectedCategory,
                 sortConfig, activeView, parseLog, calculatedColumns, sqlPasteInput,
                 selectedMonth, groupByColumn, aggregationType, topN, drilldown,
                 joinStats, pendingReads, urlInput, isLoading, loadError, fetches, download>>
  /\ Render(tables)

\* A header of the programs table of the overview (lines 1607-1625)
sortPrograms(key) ==
  /\ OverviewShown
  /\ key \in {"card_program_name", "card_count", "transaction_count", "total_spend"}
  /\ dashboardSort' = [dashboardSort EXCEPT
                         !.programs = [key |-> key,
                                       dir |-> HeaderDir(dashboardSort.programs, key)]]
  /\ UNCHANGED <<activeTable, columns, columnTypes, filters, selectedCategory,
                 sortConfig, activeView, parseLog, calculatedColumns, sqlPasteInput,
                 selectedMonth, groupByColumn, aggregationType, topN, drilldown,
                 joinStats, pendingReads, urlInput, isLoading, loadError, fetches, download>>
  /\ Render(tables)

\* The Back to Overview button (line 1579)
backToOverview ==
  /\ DashboardShown
  /\ drilldown.level # "overview"
  /\ drilldown' = Overview
  /\ UNCHANGED <<activeTable, columns, columnTypes, filters, selectedCategory,
                 sortConfig, activeView, parseLog, calculatedColumns, sqlPasteInput,
                 selectedMonth, groupByColumn, aggregationType, topN, joinStats,
                 pendingReads>>
  /\ Render(tables)
  /\ UNCHANGED <<dashboardSort, urlInput, isLoading, loadError, fetches, download>>

-----------------------------------------------------------------------------
(* Inputs                                                                  *)
(*                                                                         *)
(* An SQL text is the sequence of its INSERT blocks: table, column list    *)
(* and value tuples, each value already decoded.                           *)

\* Bounds of the enumerated inputs and of the length of a run
MaxTxns == 2
MaxRows == 3
MaxSteps == 5
MaxPending == 1
MaxChartRows == 2
MaxGroups == 6
MaxTuples == 2
MaxColumns == 2
MaxExportRows == 2
MaxFetches == 2

\* String literals of the inputs
sTravel == Str(<<"T", "r", "a", "v", "e", "l">>)
sGold == Str(<<"G", "o", "l", "d">>)
sA == Str(<<"A">>)
sA1 == Str(<<"A", "1">>)
sB2 == Str(<<"B", "2">>)
sX == Str(<<"X">>)
sY == Str(<<"Y">>)
sJan15 == Str(<<"2", "0", "2", "4", "-", "0", "1", "-", "1", "5">>)
sFeb03 == Str(<<"2", "0", "2", "4", "-", "0", "2", "-", "0", "3">>)
s1 == Str(<<"1">>)
s2 == Str(<<"2">>)
s3 == Str(<<"3">>)
s7 == Str(<<"7">>)
sUsd5 == Str(<<"$", "5">>)
sb == Str(<<"b">>)
sC == Str(<<"C">>)
sc == Str(<<"c">>)
sa == Str(<<"a">>)
s0 == Str(<<"0">>)

Block(table, cols, tuples) == [table |-> table, cols |-> cols, tuples |-> tuples]

\* A dump with the three tables of the join; card 3 is not in cards, card 2
\* points at a program that is not in card_programs
CanonicalDoc ==
  << Block("cards", <<"id", "card_program_id">>,
           << <<Num(1), Num(1)>>, <<Num(2), sA>> >>),
     Block("card_programs", <<"id", "name">>,
           << <<Num(1), sTravel>> >>),
     Block("transactions", <<"id", "card_id", "amount", "user_transaction_time">>,
           << <<Num(1), Num(1), Num(5), sJan15>>,
              <<Num(2), Num(1), Num(7), sFeb03>>,
              <<Num(3), Num(1), Num(3), sJan15>>,
              <<Num(4), Num(2), Num(2), sFeb03>>,
              <<Num(5), Num(3), Num(1), sJan15>> >>) >>

\* A dump with a bill of materials and a second table
ItemsDoc ==
  << Block("items", <<"part", "qty", "unit_cost", "category">>,
           << <<sA1, Num(2), sUsd5, sX>>,
              <<sB2, Num(0), Num(7), sY>>,
              <<sA1, Null, Num(3), sX>> >>),
     Block("notes", <<"id", "note">>,
           << <<Num(1), sa>>, <<Num(2), sb>> >>) >>

\* A text without INSERT statements
GarbageDoc == <<>>

\* What Papa.parse reports for bom.csv: every cell is a string
BomCsv ==
  [name |-> "bom",
   fields |-> <<"part", "qty", "unit_cost">>,
   data |-> << << <<"part", sA1>>, <<"qty", s2>>, <<"unit_cost", sUsd5>> >>,
               << <<"part", sB2>>, <<"qty", sX>>, <<"unit_cost", s7>> >> >>]

\* The parse results of a CSV export whose header has a column named _id
ExportCsv ==
  [name |-> "export",
   fields |-> <<"_id", "part">>,
   data |-> << << <<"_id", sA1>>, <<"part", sX>> >>,
               << <<"_id", sB2>>, <<"part", sY>> >> >>]

PasteDocs == {CanonicalDoc, ItemsDoc, GarbageDoc}

\* A dump whose table is named constructor
ConstructorDoc == << Block("constructor", <<"id">>, << <<Num(1)>> >>) >>

\* A file is its extension with what reading it yields: the text of an .sql
\* file, the parse results of any other
NoResults == [name |-> "", fields |-> <<>>, data |-> <<>>]

\* The texts typed into the URL box: nothing, a blank, a text that is no
\* absolute URL, a URL
Urls == {"", " ", "data.sql", "https://example.com/data"}

\* The answers to a request
Responses ==
  { [kind |-> "rejected", message |-> m, file |-> [ext |-> "", content |-> <<>>, results |-> NoResults]]
    : m \in {ChromiumMessage, GeckoMessage, WebKitMessage} }
  \cup { [kind |-> k, message |-> <<>>, file |-> [ext |-> "", content |-> <<>>, results |-> NoResults]]
         : k \in {"notOk", "empty"} }
  \cup { [kind |-> "body", message |-> <<>>, file |-> f]
         : f \in { [ext |-> "sql", content |-> ItemsDoc, results |-> NoResults],
                   [ext |-> "sql", content |-> ConstructorDoc, results |-> NoResults],
                   [ext |-> "csv", content |-> <<>>, results |-> BomCsv] } }

\* The .sql files uploaded over a loaded table
ReloadFiles ==
  { [ext |-> "sql", content |-> c, results |-> NoResults]
    : c \in {GarbageDoc, ConstructorDoc, ItemsDoc} }


Files ==
  { [ext |-> "sql", content |-> CanonicalDoc, results |-> NoResults],
    [ext |-> "sql", content |-> ItemsDoc, results |-> NoResults],
    [ext |-> "csv", content |-> <<>>, results |-> BomCsv],
    [ext |-> "csv", content |-> <<>>, results |-> ExportCsv] }

TableNames == {"transactions_joined", "transactions", "cards", "card_programs",
               "items", "notes", "bom", "export"}

ColumnNames == {"id", "card_id", "amount", "user_transaction_time",
                "card_program_id", "card_program_name", "part", "qty",
                "unit_cost", "category", "note", "name"}

FilterTexts == { <<>>, <<"1">> }

\* The dumps of the join: up to MaxTxns transactions, one or two cards and
\* one program, every id drawn from values that match, miss, or are absent
TxnCardIds == {Num(1), Num(2), s1, Null}

TxnTables ==
  UNION { { Block("transactions", <<"id", "card_id", "amount">>,
                  [i \in 1..Len(ids) |-> <<Num(i), ids[i], Num(5)>>]),
            Block("transactions", <<"id", "card_id", "card_program_id">>,
                  [i \in 1..Len(ids) |-> <<Num(i), ids[i], Num(9)>>]) }
          : ids \in UNION { [1..n -> TxnCardIds] : n \in 1..MaxTxns } }

CardTables ==
  { Block("cards", <<"id", "card_program_id">>, << <<id, pid>> >> \o more)
    : id \in {Num(1), Null}, pid \in {Num(0), Num(1), Null},
      more \in { <<>>, << <<Num(2), Num(1)>> >>, << <<Num(2), Num(2)>> >> } }

ProgramTables ==
  { Block("card_programs", <<"id", "display_name", "name">>, << <<id, dn, nm>> >>)
    : id \in {Num(0), Num(1), Null}, dn \in {Null, sGold}, nm \in {Null, sTravel} }

JoinDocs ==
  { <<c, p, t>> : c \in CardTables, p \in ProgramTables, t \in TxnTables }

\* The dumps of the dashboard: two cards, one program, and up to MaxRows
\* transactions whose card_id is a number, a string or NULL
DashCardIds == {Num(1), s1, sA, Null}

DashAmounts == <<Num(5), Num(7), Num(3), Num(2)>>

DashDocs ==
  { << Block("cards", <<"id", "card_program_id">>,
             << <<Num(1), Num(1)>>, <<sA, Num(2)>> >>),
       Block("card_programs", <<"id", "name">>, << <<Num(1), sTravel>> >>),
       Block("transactions", <<"id", "card_id", "amount">>,
             [i \in 1..Len(ids) |-> <<Num(i), ids[i], DashAmounts[((i - 1) % 4) + 1]>>]) >>
    : ids \in UNION { [1..n -> DashCardIds] : n \in 1..MaxRows } }

\* The dumps of the export: one table of up to MaxExportRows rows whose first
\* column has strings with a comma, a double quote or a line break, strings
\* that read as a number or as NULL, a number and NULL
ExportCells ==
  { Str(<<"a", ",", "b">>), Str(<<"q", "\"", "r">>), Str(<<"l", "\n", "m">>),
    s7, Str(<<"N", "U", "L", "L">>), Num(7), Null }

ExportDocs ==
  { << Block("items", <<"part", "note">>, rows) >>
    : rows \in UNION { [1..n -> ExportCells \X {sa, Num(0)}] : n \in 1..MaxExportRows } }

\* The dumps of the view: one table of up to MaxRows rows with strings of
\* both cases, the number 0 and NULL
ViewDocs ==
  { << Block("items", <<"part", "note">>, rows) >>
    : rows \in UNION { [1..n -> {Null, sb, sC, Num(0)} \X {sa, Num(0)}]
                       : n \in 1..MaxRows } }

\* Pasted texts for the charts: a table of sales with a grouping column of
\* strings, numbers and nulls, an amount and a day
ChartCells ==
  { <<cat, sale[1], sale[2]>> :
      cat \in {sX, sY, Num(1), Num(0), Null},
      sale \in {<<Num(1), sJan15>>, <<Num(2), sJan15>>, <<Num(1), sFeb03>>} }

SmallChartDocs ==
  { << Block("sales", <<"category", "amount", "day">>, rows) >>
    : rows \in UNION { [1..n -> ChartCells] : n \in 1..MaxChartRows } }

\* Texts with more groups than the smallest limit of the top-N select keeps
GroupKey(i) == Str(<<"k">> \o NatToStr(i))

WideChartDocs ==
  { << Block("sales", <<"category", "amount", "day">>,
             [i \in 1..MaxGroups |->
                <<GroupKey(i), amounts[i], IF i % 2 = 1 THEN sJan15 ELSE sFeb03>>]) >>
    : amounts \in [1..MaxGroups -> {Num(1), Num(2)}] }

ChartDocs == SmallChartDocs \cup WideChartDocs

\* Pasted texts, character by character: a CREATE TABLE of two columns and
\* an INSERT of up to MaxTuples value sets. A value set is given by its text
\* and by the values written in it: the characters between the quotes of a
\* literal with \' and \" unescaped, null for NULL, the number for a numeral.
\* The plain ones have no parenthesis and no SQL word inside a literal.
ValueSetKinds ==
  << [src |-> <<"1", ",", " ", "'", "x", "'">>,
      values |-> <<Num(1), Str(<<"x">>)>>,
      plain |-> TRUE],
     [src |-> <<"'", "a", ",", "b", "'", ",", " ", "7">>,
      values |-> <<Str(<<"a", ",", "b">>), Num(7)>>,
      plain |-> TRUE],
     [src |-> <<"\"", "c", ",", "d", "\"", ",", " ", "N", "U", "L", "L">>,
      values |-> <<Str(<<"c", ",", "d">>), Null>>,
      plain |-> TRUE],
     [src |-> <<"'", "i", "t", "\\", "'", "s", "'", ",", " ", "n", "u", "l", "l">>,
      values |-> <<Str(<<"i", "t", "'", "s">>), Null>>,
      plain |-> TRUE],
     [src |-> <<"\"", "q", "\\", "\"", "r", "\"", ",", " ", "N", "u", "l", "l">>,
      values |-> <<Str(<<"q", "\"", "r">>), Null>>,
      plain |-> TRUE],
     [src |-> <<"'", "s", "a", "y", " ", "\"", "h", "i", "\"", "'", ",", " ", "2">>,
      values |-> <<Str(<<"s", "a", "y", " ", "\"", "h", "i", "\"">>), Num(2)>>,
      plain |-> TRUE],
     [src |-> <<"'", "C", ":", "\\", "\\", "'", ",", " ", "'", "b", ",", "c", "'">>,
      values |-> <<Str(<<"C", ":", "\\", "\\">>), Str(<<"b", ",", "c">>)>>,
      plain |-> TRUE],
     [src |-> <<"3", ",", " ", "'", "a", ")", "b", "'">>,
      values |-> <<Num(3), Str(<<"a", ")", "b">>)>>,
      plain |-> FALSE],
     [src |-> <<"4", ",", " ", "'", "c", "r", "e", "a", "t", "e", "d", "'">>,
      values |-> <<Num(4), Str(<<"c", "r", "e", "a", "t", "e", "d">>)>>,
      plain |-> FALSE],
     [src |-> <<"5", ",", " ", "'", "U", "p", "d", "a", "t", "e", "d", "'">>,
      values |-> <<Num(5), Str(<<"U", "p", "d", "a", "t", "e", "d">>)>>,
      plain |-> FALSE] >>

SqlHeader ==
  <<"C", "R", "E", "A", "T", "E", " ", "T", "A", "B", "L", "E", " ", "n", "o", "t", "e", "s", " ", "(", "n", "o", "t", "e", " ", "T", "E", "X", "T", ",", " ", "n", "a", "m", "e", " ", "V", "A", "R", "C", "H", "A", "R", "(", "2", "0", ")", ")", ";", " ", "I", "N", "S", "E", "R", "T", " ", "I", "N", "T", "O", " ", "n", "o", "t", "e", "s", " ", "V", "A", "L", "U", "E", "S", " ">>

\* The text of the value sets of a description, a sequence of kinds
RECURSIVE ValueSetsText(_)
ValueSetsText(d) ==
  IF d = <<>> THEN <<>>
  ELSE <<"(">> \o ValueSetKinds[Head(d)].src \o <<")">>
       \o (IF Len(d) > 1 THEN <<",", " ">> ELSE <<";">>)
       \o ValueSetsText(Tail(d))

SqlText(d) == SqlHeader \o ValueSetsText(d)

SqlDescriptions == UNION { [1..k -> 1..Len(ValueSetKinds)] : k \in 1..MaxTuples }

SqlTexts == { SqlText(d) : d \in SqlDescriptions }

\* Pasted texts for the column types and roles: a table of items whose
\* columns are up to MaxColumns names, each with the cells of one of the
\* patterns, and a table of notes to switch to
CellPatterns ==
  { <<Num(5), Num(7), Num(1), Num(2)>>,
    <<sUsd5, s7, sX, s2>>,
    <<Null, Str(<<>>), s7, sUsd5>>,
    <<sX, sY, s7, s2>>,
    <<sA1, sB2, sX, sY>> }

RoleColumns == {"qty", "unit_cost", "amount", "id", "part"}

ColumnLists ==
  { cols \in UNION { [1..n -> RoleColumns] : n \in 1..MaxColumns } :
      \A i, j \in 1..Len(cols) : i # j => cols[i] # cols[j] }

\* The value sets of a table whose columns hold the given cells
CellRows(cells) ==
  [r \in 1..Len(cells[1]) |-> [j \in 1..Len(cells) |-> cells[j][r]]]

ColumnDocs ==
  { << Block("items", cols, CellRows(cells)), Block("notes", <<"note">>, << <<sa>> >>) >>
    : <<cols, cells>> \in
        UNION { {cs} \X [1..Len(cs) -> CellPatterns] : cs \in ColumnLists } }

\* The limits of the top-N select the charts are checked with (lines 1520-1522)
TopNChoices == {0, 5, 10}

-----------------------------------------------------------------------------
(* Specifications                                                          *)

\* The application from its mount, with the paste box empty
Init == InitState /\ sqlPasteInput = NoText

Counted(A) == steps < MaxSteps /\ steps' = steps + 1 /\ A
Uncounted(A) == A /\ UNCHANGED steps

Next ==
  \/ Counted(\E c \in PasteDocs : setSqlPasteInput(c))
  \/ Counted(handlePasteSQL)
  \/ Counted(\E f \in Files : Len(pendingReads) < MaxPending /\ handleFileUpload(f))
  \/ Counted(\E i \in 1..MaxPending : fileReadComplete(i))
  \/ Counted(\E t \in TableNames : switchTable(t))
  \/ Counted(\E k \in ColumnNames \cup {"ext_total"} : handleSort(k))
  \/ Counted(\E k \in ColumnNames, v \in FilterTexts : setFilter(k, v))
  \/ Counted(\E c \in CategoryOptions \cup {All} : setSelectedCategory(c))
  \/ Counted(\E m \in MonthOptions \cup {All} : setSelectedMonth(m))
  \/ Counted(clearAll)
  \/ Counted(\E v \in {"table", "charts", "dashboard"} : setActiveView(v))
  \/ Counted(\E k \in ColumnNames \cup {NoCol} : setGroupByColumn(k))
  \/ Counted(\E a \in {"sum", "count"} : setAggregationType(a))
  \/ Counted(\E n \in {0, 5, 10, 25, 50} : setTopN(n))
  \/ Counted(addCalculatedColumn)
  \/ Counted(\E i \in 1..Len(TableOf(tables, "transactions_joined")) :
               drillIntoCard(ObjGet(TableOf(tables, "transactions_joined")[i], "card_id")))
  \/ Counted(\E i \in 1..Len(TableOf(tables, "transactions_joined")) :
               drillIntoProgram(
                 [card_program_id |->
                    ObjGet(TableOf(tables, "transactions_joined")[i], "card_program_id"),
                  card_program_name |->
                    ObjGet(TableOf(tables, "transactions_joined")[i], "card_program_name")]))
  \/ Counted(backToOverview)

Spec == Init /\ [][Next]_vars

\* The join alone: any dump of JoinDocs is in the paste box
JoinInit == InitState /\ \E c \in JoinDocs : sqlPasteInput = [empty |-> FALSE, blocks |-> c, text |-> <<>>]

JoinNext == Uncounted(handlePasteSQL)

JoinSpec == JoinInit /\ [][JoinNext]_vars

\* The view alone: any dump of ViewDocs is in the paste box, then sorted and
\* filtered
ViewInit == InitState /\ \E c \in ViewDocs : sqlPasteInput = [empty |-> FALSE, blocks |-> c, text |-> <<>>]

ViewNext ==
  \/ Uncounted(handlePasteSQL)
  \/ Uncounted(\E k \in {"part", "note"} : handleSort(k))
  \/ Uncounted(\E k \in {"part", "note"}, v \in {<<>>, <<"c">>, <<"0">>} : setFilter(k, v))

ViewSpec == ViewInit /\ [][ViewNext]_vars

\* The charts over one pasted text
ChartInit == InitState /\ \E c \in ChartDocs : sqlPasteInput = [empty |-> FALSE, blocks |-> c, text |-> <<>>]

ChartNext ==
  \/ Uncounted(handlePasteSQL)
  \/ Uncounted(setActiveView("charts"))
  \/ Uncounted(\E col \in {NoCol, "category", "amount"} : setGroupByColumn(col))
  \/ Uncounted(\E type \in {"sum", "count"} : setAggregationType(type))
  \/ Uncounted(\E n \in TopNChoices : setTopN(n))

ChartSpec == ChartInit /\ [][ChartNext]_vars

\* The column types and roles over one pasted text
ColumnInit ==
  InitState /\ \E c \in ColumnDocs : sqlPasteInput = [empty |-> FALSE, blocks |-> c, text |-> <<>>]

ColumnNext ==
  \/ Uncounted(handlePasteSQL)
  \/ Uncounted(\E t \in {"items", "notes"} : switchTable(t))

ColumnSpec == ColumnInit /\ [][ColumnNext]_vars

\* The dashboard over one pasted dump
DashInit ==
  InitState /\ \E c \in DashDocs : sqlPasteInput = [empty |-> FALSE, blocks |-> c, text |-> <<>>]

DashNext ==
  \/ Uncounted(handlePasteSQL)
  \/ Uncounted(\E key \in {"card_id", "card_program_name", "transaction_count", "total_spend"} :
                 sortCards(key))
  \/ Uncounted(\E key \in {"card_program_name", "card_count"} : sortPrograms(key))
  \/ Uncounted(\E i \in 1..Len(TableOf(tables, "transactions_joined")) :
                 drillIntoCard(ObjGet(TableOf(tables, "transactions_joined")[i], "card_id")))
  \/ Uncounted(backToOverview)

DashSpec == DashInit /\ [][DashNext]_vars

\* The export of the view of one pasted dump
ExportInit ==
  InitState /\ \E c \in ExportDocs : sqlPasteInput = [empty |-> FALSE, blocks |-> c, text |-> <<>>]

ExportNext ==
  \/ Uncounted(handlePasteSQL)
  \/ Uncounted(\E v \in {<<>>, <<"a">>} : setFilter("part", v))
  \/ Uncounted(exportCSV)

ExportSpec == ExportInit /\ [][ExportNext]_vars

\* Loads that follow one another: a pasted dump, then .sql files uploaded
\* with the Upload Different File control (line 1964)
ReloadInit ==
  InitState /\ \E c \in {CanonicalDoc, ItemsDoc, GarbageDoc} :
                 sqlPasteInput = [empty |-> FALSE, blocks |-> c, text |-> <<>>]

ReloadNext ==
  \/ Uncounted(handlePasteSQL)
  \/ Uncounted(\E f \in ReloadFiles : Len(pendingReads) < MaxPending /\ handleFileUpload(f))
  \/ Uncounted(\E i \in 1..MaxPending : fileReadComplete(i))
  \/ Uncounted(\E t \in {"items", "notes", "transactions", "cards"} : switchTable(t))
  \/ Uncounted(\E v \in {"table", "charts"} : setActiveView(v))

ReloadSpec == ReloadInit /\ [][ReloadNext]_vars

\* Loads from a URL, from the mount of the application
FetchInit == InitState /\ sqlPasteInput = NoText

FetchNext ==
  \/ Uncounted(\E url \in Urls : setUrlInput(url))
  \/ Uncounted(\E trigger \in {"click", "enter"}, response \in Responses :
                 Len(fetches) < MaxFetches /\ handleURLFetch(trigger, response))
  \/ Uncounted(\E i \in 1..MaxFetches : fetchComplete(i))

FetchSpec == FetchInit /\ [][FetchNext]_vars

\* The load of one pasted text, scanned character by character
SqlInit ==
  InitState /\ \E t \in SqlTexts : sqlPasteInput = [empty |-> FALSE, blocks |-> <<>>, text |-> t]

SqlNext == Uncounted(handlePasteSQL)

SqlSpec == SqlInit /\ [][SqlNext]_vars

-----------------------------------------------------------------------------
(* Properties                                                              *)

\* The query state at its defaults (lines 13-15, 23-28)
DefaultQueryState ==
  /\ filters = <<>>
  /\ selectedCategory = All
  /\ selectedMonth = All
  /\ sortConfig = NoSort
  /\ groupByColumn = NoCol
  /\ aggregationType = "sum"
  /\ topN = DefaultTopN
  /\ drilldown = Overview

\* C1: whenever the active table changes (switchTable, a completed SQL load,
\* a completed CSV load), every component of the query state is at its
\* default in the resulting state.
C1_QueryStateResetOnTableChange ==
  [][activeTable' # activeTable => DefaultQueryState']_vars

-----------------------------------------------------------------------------
(* The join, read off the state a load leaves                              *)

Joined == TableOf(tables, "transactions_joined")
Txns == TableOf(tables, "transactions")
Cards == TableOf(tables, "cards")
Programs == TableOf(tables, "card_programs")

JoinLoaded == HasTable(tables, "transactions_joined")

\* The added fields of the joined row i
ProgramIdOf(i) == ObjGet(Joined[i], "card_program_id")
ProgramNameOf(i) == ObjGet(Joined[i], "card_program_name")

\* Transaction i has a card: a cards row whose id is its card_id, as the
\* value or as its string form
HasCard(i) ==
  \E c \in 1..Len(Cards) :
    String(ObjGet(Cards[c], "id")) = String(ObjGet(Txns[i], "card_id"))

\* The card of transaction i; ids are unique in the inputs
CardRowOf(i) ==
  Cards[CHOOSE c \in 1..Len(Cards) :
          String(ObjGet(Cards[c], "id")) = String(ObjGet(Txns[i], "card_id"))]

\* card_programs row p carries id as its id
IsProgram(p, id) == String(ObjGet(Programs[p], "id")) = String(id)

SameLengthAndOrder ==
  /\ Len(Joined) = Len(Txns)
  /\ \A i \in 1..Len(Joined) :
       /\ ObjGet(Joined[i], "_id") = ObjGet(Txns[i], "_id")
       /\ ObjHas(Joined[i], "card_program_id")
       /\ ObjHas(Joined[i], "card_program_name")

\* C2 as stated: one joined row per transaction, in order, every original
\* field unchanged, plus card_program_id and card_program_name.
C2_JoinKeepsEveryField ==
  JoinLoaded =>
    /\ SameLengthAndOrder
    /\ \A i \in 1..Len(Joined) :
         \A k \in SeqToSet(ObjKeys(Txns[i])) :
           ObjGet(Joined[i], k) = ObjGet(Txns[i], k)

\* C2: one joined row per transaction, in the same order; each carries every
\* original field not named card_program_id or card_program_name unchanged,
\* and those two fields as the join computes them.
C2_JoinKeepsOtherFields ==
  JoinLoaded =>
    /\ SameLengthAndOrder
    /\ \A i \in 1..Len(Joined) :
         /\ \A k \in SeqToSet(ObjKeys(Txns[i])) \ {"card_program_id", "card_program_name"} :
              ObjGet(Joined[i], k) = ObjGet(Txns[i], k)
         /\ HasCard(i) => ProgramIdOf(i) = ObjGet(CardRowOf(i), "card_program_id")
         /\ ~HasCard(i) => ProgramIdOf(i) = Undefined

\* A join of two transactions, one with a card and one without
C2_Witness ==
  /\ JoinLoaded
  /\ Len(Joined) >= 2
  /\ \E i, j \in 1..Len(Joined) : HasCard(i) /\ ~HasCard(j)

CountIn(s, v) == Cardinality({i \in 1..Len(s) : s[i] = v})

\* C3: a transaction whose card_id matches no cards row has card_program_id
\* undefined and card_program_name "Unknown Program", and its card_id is in
\* the unmatched set exactly once.
C3_UnmatchedCard ==
  JoinLoaded =>
    \A i \in 1..Len(Joined) :
      ~HasCard(i) =>
        /\ ProgramIdOf(i) = Undefined
        /\ ProgramNameOf(i) = UnknownProgram
        /\ CountIn(joinStats.unmatchedCardIds, ObjGet(Txns[i], "card_id")) = 1

\* Two transactions share a card_id that no card has
C3_Witness ==
  /\ JoinLoaded
  /\ \E i, j \in 1..Len(Joined) :
       /\ i # j
       /\ ~HasCard(i)
       /\ ObjGet(Txns[i], "card_id") = ObjGet(Txns[j], "card_id")

EveryCardIdExists == \A i \in 1..Len(Txns) : HasCard(i)

EveryProgramIdExists ==
  \A c \in 1..Len(Cards) :
    \E p \in 1..Len(Programs) : IsProgram(p, ObjGet(Cards[c], "card_program_id"))

JoinComplete ==
  /\ joinStats.matchedCards = Len(Txns)
  /\ \A i \in 1..Len(Joined) : ProgramNameOf(i) # UnknownProgram

\* C4 as stated: every card_id is an id of cards and every card_program_id an
\* id of card_programs, so matchedCards is the number of transactions and no
\* row is named "Unknown Program".
C4_JoinCompleteness ==
  (JoinLoaded /\ EveryCardIdExists /\ EveryProgramIdExists) => JoinComplete

\* C4: the same when, besides, no card has a null card_program_id.
C4_JoinCompletenessNonNull ==
  ( /\ JoinLoaded
    /\ EveryCardIdExists
    /\ EveryProgramIdExists
    /\ \A c \in 1..Len(Cards) : ~IsNullish(ObjGet(Cards[c], "card_program_id")) )
  => JoinComplete

\* Every id exists, and the program of some transaction has no name at all
C4_Witness ==
  /\ JoinLoaded
  /\ EveryCardIdExists
  /\ EveryProgramIdExists
  /\ \A c \in 1..Len(Cards) : ~IsNullish(ObjGet(Cards[c], "card_program_id"))
  /\ Len(Joined) >= 2
  /\ \E i \in 1..Len(Joined) :
       ProgramNameOf(i) = ProgramNumber(ProgramIdOf(i))

\* The program record of joined row i resolved: its card carries a program
\* id that is the id of a card_programs row
Resolved(i) ==
  /\ HasCard(i)
  /\ ~IsNullish(ProgramIdOf(i))
  /\ \E p \in 1..Len(Programs) : IsProgram(p, ProgramIdOf(i))

ProgramRowOf(i) == Programs[CHOOSE p \in 1..Len(Programs) : IsProgram(p, ProgramIdOf(i))]

Present(v) == ~IsNullish(v) /\ v # Str(<<>>)

\* C5: card_program_name is the program's display_name, or its name when
\* display_name is absent, whenever the program record resolved (and has one
\* of the two); otherwise "Program #<id>" whenever the card carries a
\* program id, 0 included; otherwise "Unknown Program".
C5_ProgramNameRule ==
  JoinLoaded =>
    \A i \in 1..Len(Joined) :
      IF Resolved(i) /\ ( \/ Present(ObjGet(ProgramRowOf(i), "display_name"))
                          \/ Present(ObjGet(ProgramRowOf(i), "name")) )
      THEN ProgramNameOf(i) =
             IF Present(ObjGet(ProgramRowOf(i), "display_name"))
             THEN ObjGet(ProgramRowOf(i), "display_name")
             ELSE ObjGet(ProgramRowOf(i), "name")
      ELSE IF ~IsNullish(ProgramIdOf(i))
           THEN ProgramNameOf(i) = ProgramNumber(ProgramIdOf(i))
           ELSE ProgramNameOf(i) = UnknownProgram

\* C6: every cell of a column of the active table that the classification
\* marks as number is a number (a cell without a value aside).
C6_NumberColumnsHoldNumbers ==
  \A j \in 1..Len(columns) :
    TypeOf(columnTypes, columns[j]) = "number" =>
      \A i \in 1..Len(data) :
        ~IsNullish(ObjGet(data[i], columns[j])) => ObjGet(data[i], columns[j]).t = "number"

\* C7: a step that completes no load leaves the table collection as it was,
\* whatever the view it recomputes.
C7_ViewLeavesTables ==
  [][(sqlPasteInput' = sqlPasteInput /\ Len(pendingReads') >= Len(pendingReads))
       => tables' = tables]_vars

\* A view sorted by the calculated column whose order is not the stored one
C7_Witness ==
  /\ HasCalc(calculatedColumns, "ext_total")
  /\ sortConfig.key = "ext_total"
  /\ \A e \in Engines : View(e) # data

\* C8: in the sorted view a row with a null or undefined sort value is never
\* before a row with a value, on any engine and in either direction.
C8_NullsLast ==
  sortConfig.key # NoCol =>
    \A e \in Engines :
      \A i, j \in 1..Len(View(e)) :
        (i < j /\ IsNullish(SortValue(sortConfig, calculatedColumns, View(e)[i])))
          => IsNullish(SortValue(sortConfig, calculatedColumns, View(e)[j]))

\* A descending sort of three rows, the first stored one without a value
C8_Witness ==
  /\ sortConfig = [key |-> "part", direction |-> "desc"]
  /\ filters = <<>>
  /\ Len(data) = 3
  /\ IsNullish(ObjGet(data[1], "part"))
  /\ ~IsNullish(ObjGet(data[2], "part"))
  /\ ~IsNullish(ObjGet(data[3], "part"))
  /\ ObjGet(data[2], "part") # ObjGet(data[3], "part")

\* C9: sorted ascending by a column, no string is before a string that is
\* smaller when letter case is ignored ('b' precedes 'C').
C9_CaseInsensitiveSort ==
  (sortConfig.key # NoCol /\ sortConfig.direction = "asc") =>
    \A e \in Engines :
      \A i, j \in 1..Len(View(e)) :
        ( /\ i < j
          /\ SortValue(sortConfig, calculatedColumns, View(e)[i]).t = "string"
          /\ SortValue(sortConfig, calculatedColumns, View(e)[j]).t = "string" )
        => ~StrLess(toLowerCase(SortValue(sortConfig, calculatedColumns, View(e)[j]).s),
                    toLowerCase(SortValue(sortConfig, calculatedColumns, View(e)[i]).s))

\* The row passes every filter with a text: the string form of its cell
\* contains the text, letter case ignored
PassesFilters(row) ==
  \A f \in 1..Len(filters) :
    filters[f][2] # <<>> =>
      includes(toLowerCase(String(ObjGet(row, filters[f][1]))),
               toLowerCase(filters[f][2]))

\* C10: with no category and no month selected, a row is in the view exactly
\* when it passes every filter with a text, the number 0 being a cell like
\* any other.
C10_FilterRule ==
  (selectedCategory = All /\ selectedMonth = All) =>
    \A e \in Engines :
      \A i \in 1..Len(data) :
        (\E k \in 1..Len(View(e)) : View(e)[k] = data[i]) <=> PassesFilters(data[i])

-----------------------------------------------------------------------------
(* The charts                                                              *)

RECURSIVE SumOf(_)
SumOf(ns) == IF ns = <<>> THEN 0 ELSE Head(ns) + SumOf(Tail(ns))

GroupCounts(b) == [i \in 1..Len(b) |-> b[i].count]
GroupValues(b) == [i \in 1..Len(b) |-> b[i].value]

\* The amount-role values of rows
AmountsOf(rows, detected) ==
  [i \in 1..Len(rows) |->
     IF detected.amount = NoCol THEN 0
     ELSE parseFloatOr0(ObjGet(rows[i], detected.amount))]

\* The groups b account for every row of the view
TotalsOf(b, view, detected) ==
  /\ SumOf(GroupCounts(b)) = Len(view)
  /\ aggregationType = "sum" => SumOf(GroupValues(b)) = SumOf(AmountsOf(view, detected))

\* The categoryBreakdown memo over a view
BreakdownOf(view, detected) ==
  categoryBreakdown(view, groupByColumn, detected, calculatedColumns, aggregationType, topN)

GroupTotals(view, detected) ==
  GroupColumn(groupByColumn, detected) # NoCol =>
    TotalsOf(BreakdownOf(view, detected), view, detected)

\* C11: for any grouping column and filtered row set, the counts of the
\* groups returned by the group/aggregate step add up to the number of
\* filtered rows that entered it and, in sum mode, their values add up to the
\* sum of the amount-role value over those rows.
C11_GroupTotals ==
  \A e \in Engines : Len(tables) > 0 => GroupTotals(View(e), detectedColumns)

\* The names of the groups of a view: the string forms of the truthy cells
\* of the grouping column
GroupNames(view, catCol) ==
  {String(ObjGet(view[i], catCol)) :
     i \in {k \in 1..Len(view) : Truthy(ObjGet(view[k], catCol))}}

\* The rows of a view in the group of a name
RowsOfGroup(view, catCol, name) ==
  SelectSeq(view, LAMBDA row :
    Truthy(ObjGet(row, catCol)) /\ String(ObjGet(row, catCol)) = name)

ValuesOf(rows, detected) ==
  [i \in 1..Len(rows) |-> RowValue(rows[i], detected, calculatedColumns)]

\* The active aggregation key of the group of a name
AggregationKey(view, detected, catCol, name) ==
  IF aggregationType = "count" THEN Len(RowsOfGroup(view, catCol, name))
  ELSE SumOf(ValuesOf(RowsOfGroup(view, catCol, name), detected))

ReturnedNames(b) == {b[i].fullName : i \in 1..Len(b)}

Min(a, b) == IF a < b THEN a ELSE b

NonIncreasing(b) ==
  \A i, j \in 1..Len(b) :
    i < j => SortKeyOf(b[i], aggregationType) >= SortKeyOf(b[j], aggregationType)

\* The returned groups b are the top ones of the groups of the view
TopOf(b, names, view, detected, catCol) ==
  /\ \A i \in 1..Len(b) :
       /\ b[i].fullName \in names
       /\ SortKeyOf(b[i], aggregationType)
            = AggregationKey(view, detected, catCol, b[i].fullName)
       /\ \A k \in names \ ReturnedNames(b) :
            SortKeyOf(b[i], aggregationType) >= AggregationKey(view, detected, catCol, k)
  /\ Cardinality(ReturnedNames(b)) = Len(b)
  /\ Len(b) = IF topN > 0 THEN Min(topN, Cardinality(names)) ELSE Cardinality(names)

TopGroups(b, view, detected, catCol) ==
  catCol # NoCol =>
    NonIncreasing(b) /\ TopOf(b, GroupNames(view, catCol), view, detected, catCol)

TopN(view, detected) ==
  TopGroups(BreakdownOf(view, detected), view, detected, GroupColumn(groupByColumn, detected))

\* C12: the groups are returned in non-increasing order of the active
\* aggregation key (value in sum mode, count in count mode); with a top-N
\* setting N > 0 exactly min(N, number of groups) of them are returned and
\* every returned group's key is at least every dropped group's key; with
\* the setting 0 every group is returned.
C12_TopN ==
  \A e \in Engines : Len(tables) > 0 => TopN(View(e), detectedColumns)

\* A dropped group of the view whose key is smaller than a returned one's
DroppedBelow(b, names, view, detected, catCol) ==
  \E i \in 1..Len(b), k \in names \ ReturnedNames(b) :
    SortKeyOf(b[i], aggregationType) > AggregationKey(view, detected, catCol, k)

\* More groups than the limit, and a dropped group with a smaller key than a
\* returned one
C12_Witness ==
  \E e \in Engines :
    /\ topN > 0
    /\ GroupColumn(groupByColumn, detectedColumns) # NoCol
    /\ Len(Breakdown(e)) = topN
    /\ DroppedBelow(Breakdown(e),
                    GroupNames(View(e), GroupColumn(groupByColumn, detectedColumns)),
                    View(e), detectedColumns, GroupColumn(groupByColumn, detectedColumns))

\* The rows of a view that belong to one of the named groups
RowsOfGroups(view, catCol, names) ==
  SelectSeq(view, LAMBDA row :
    Truthy(ObjGet(row, catCol)) /\ String(ObjGet(row, catCol)) \in names)

\* The distinct days of rows
DaysOf(rows, dateCol) ==
  {DayKey(ObjGet(rows[i], dateCol)) : i \in 1..Len(rows)} \ {<<>>}

\* The rows of a day
RowsOfDay(rows, dateCol, day) ==
  SelectSeq(rows, LAMBDA row : DayKey(ObjGet(row, dateCol)) = day)

\* The chart rows are one per day of the rows, each with the amount sum of
\* every named group on that day
SeriesOfRows(series, rows, names, detected, catCol) ==
  /\ {ObjGet(series[i], DateField).s : i \in 1..Len(series)} = DaysOf(rows, detected.date)
  /\ Len(series) = Cardinality(DaysOf(rows, detected.date))
  /\ \A i \in 1..Len(series) : \A name \in names :
       ObjGet(series[i], name)
         = Num(SumOf(AmountsOf(
             RowsOfGroup(RowsOfDay(rows, detected.date, ObjGet(series[i], DateField).s),
                         catCol, name),
             detected)))

SeriesOfGroups(b, view, detected, catCol) ==
  (catCol # NoCol /\ detected.date # NoCol /\ detected.amount # NoCol /\ b # <<>>) =>
    SeriesOfRows(timeSeriesData(view, b, groupByColumn, detected).data,
                 RowsOfGroups(view, catCol, ReturnedNames(b)),
                 ReturnedNames(b), detected, catCol)

SeriesOfView(view, detected) ==
  SeriesOfGroups(BreakdownOf(view, detected), view, detected,
                 GroupColumn(groupByColumn, detected))

\* C13: the time series has exactly one row per distinct day among the
\* filtered rows that belong to a surviving group, and the field of each
\* surviving category in a row is the amount sum of the filtered rows of that
\* day and category (0 when there is none), whether the grouping column holds
\* strings or numbers.
C13_TimeSeries ==
  \A e \in Engines : Len(tables) > 0 => SeriesOfView(View(e), detectedColumns)

-----------------------------------------------------------------------------
(* The calculated column                                                   *)

ExtTotals(calcs) == SelectSeq(calcs, LAMBDA c : c.name = "ext_total")

\* A step that adds a calculated column: addCalculatedColumn is the one
\* handler that does
AddsCalculatedColumn == Len(calculatedColumns') > Len(calculatedColumns)

NoExtTotalField(ts) ==
  \A t \in 1..Len(ts) : \A i \in 1..Len(ts[t][2]) : ~ObjHas(ts[t][2][i], "ext_total")

\* C14: adding the ext_total column leaves the table collection and every
\* row of it unchanged (no row gains an ext_total field), and in every
\* reachable state there is at most one calculated column named ext_total,
\* however many times the action is triggered.
C14_ExtTotalOnce ==
  /\ [](Len(ExtTotals(calculatedColumns)) <= 1)
  /\ [][AddsCalculatedColumn => (tables' = tables /\ NoExtTotalField(tables'))]_vars

\* The column has been added to a loaded table
C14_Witness ==
  /\ Len(tables) > 0
  /\ Len(ExtTotals(calculatedColumns)) = 1
  /\ steps > 2

-----------------------------------------------------------------------------
(* The scan of a pasted text                                               *)

\* The table of the texts holds k rows with the columns as declared
Extracted(ts, k) ==
  /\ HasTable(ts, "notes")
  /\ Len(TableOf(ts, "notes")) = k
  /\ \A i \in 1..Len(TableOf(ts, "notes")) :
       ObjKeys(TableOf(ts, "notes")[i]) = <<"_id", "note", "name">>

\* C15: for a text with CREATE TABLE t (...) followed by INSERT INTO t VALUES
\* with k value sets, the load produces the table t with exactly k rows and
\* the columns in the order of their declaration, also when a quoted string
\* contains a closing parenthesis or a word such as create or update.
C15_ExtractsEveryValueSet ==
  [][\A d \in SqlDescriptions :
       sqlPasteInput.text = SqlText(d) => Extracted(tables', Len(d))]_vars

\* The rows hold the values written in the value sets of a description
Decoded(rows, d) ==
  /\ Len(rows) = Len(d)
  /\ \A i \in 1..Len(rows) :
       /\ ObjGet(rows[i], "note") = ValueSetKinds[d[i]].values[1]
       /\ ObjGet(rows[i], "name") = ValueSetKinds[d[i]].values[2]

PlainDescription(d) == \A i \in 1..Len(d) : ValueSetKinds[d[i]].plain

\* C16: a comma inside a matched single- or double-quoted literal never
\* splits the value set, an escaped quote of the same kind does not close the
\* literal, and an unquoted NULL in any letter case is decoded to null, never
\* to the string "NULL": every value set is decoded to the values written in
\* it.
C16_SplitsAndDecodes ==
  [][\A d \in SqlDescriptions :
       (sqlPasteInput.text = SqlText(d) /\ PlainDescription(d))
         => Decoded(TableOf(tables', "notes"), d)]_vars

-----------------------------------------------------------------------------
(* Row ids                                                                 *)

Sequential(rows) == \A i \in 1..Len(rows) : ObjGet(rows[i], "_id") = Num(i - 1)

\* C17: in every table of the table collection after any load, the joined
\* table and the tables fed by several INSERT blocks included, the row at
\* position i has _id = i.
C17_SequentialIds == \A t \in 1..Len(tables) : Sequential(tables[t][2])

-----------------------------------------------------------------------------
(* Column types and roles                                                  *)

\* A column that processTableData has coerced: its cells are numbers, but
\* for the ones without a value
CoercedNumbers(values) ==
  /\ \E i \in 1..Len(values) : values[i].t = "number"
  /\ \A i \in 1..Len(values) : values[i].t = "number" \/ IsNullish(values[i])

\* The columns of a table that are classified number are classified number
\* again from the cells of the stored table
NumberAgain(rawRows, storedRows) ==
  \A j \in 1..Len(ColumnsOf(rawRows)) :
    detectColumnType(ColumnValues(rawRows, ColumnsOf(rawRows)[j])) = "number"
      => /\ CoercedNumbers(ColumnValues(storedRows, ColumnsOf(rawRows)[j]))
         /\ detectColumnType(ColumnValues(storedRows, ColumnsOf(rawRows)[j])) = "number"

NumbersAgain(raw, stored) ==
  \A t \in 1..Len(raw) : NumberAgain(raw[t][2], TableOf(stored, raw[t][1]))

\* C18: type classification is idempotent under coercion: a column that
\* detectColumnType marks as number is marked number again when it is
\* classified after processTableData has coerced its cells, as the load and
\* switchTable do from the stored table.
C18_NumberStaysNumber ==
  /\ [][(~sqlPasteInput.empty /\ sqlPasteInput'.empty)
         => NumbersAgain(parseSQLFile(Statements(sqlPasteInput)).tables, tables')]_vars
  /\ [](\A j \in 1..Len(columns) :
          (Len(tables) > 0 /\ CoercedNumbers(ColumnValues(data, columns[j])))
            => TypeOf(columnTypes, columns[j]) = "number")

\* A column of numerals and one word, coerced, and classified from the
\* stored cells after a switch back to its table
C18_Witness ==
  /\ activeTable = "items"
  /\ \E j \in 1..Len(columns) :
       /\ ColumnValues(data, columns[j]) = <<Num(5), Num(7), Num(0), Num(2)>>
       /\ TypeOf(columnTypes, columns[j]) = "number"

\* C19: role detection assigns at most one column to each role and each
\* column to at most one role; in particular the quantity-role column and the
\* amount-role column are never the same column.
C19_OneRolePerColumn ==
  Len(tables) > 0 =>
    \A r1, r2 \in DOMAIN patterns :
      (r1 # r2 /\ detectedColumns[r1] # NoCol) => detectedColumns[r1] # detectedColumns[r2]

\* The positions of the number-typed columns whose name has a stem of a role
NumberMatches(role, cols, types) ==
  {i \in 1..Len(cols) : NameMatches(role, cols[i]) /\ TypeOf(types, cols[i]) = "number"}

NumberColumns(cols, types) == {i \in 1..Len(cols) : TypeOf(types, cols[i]) = "number"}

\* The column at the least of a set of positions, none when the set is empty
LeastOf(cols, positions) ==
  IF positions = {} THEN NoCol
  ELSE cols[CHOOSE i \in positions : \A j \in positions : i <= j]

NumberRoles(detected, cols, types) ==
  /\ detected.quantity = LeastOf(cols, NumberMatches("quantity", cols, types))
  /\ detected.amount =
       IF NumberMatches("amount", cols, types) # {}
       THEN LeastOf(cols, NumberMatches("amount", cols, types))
       ELSE LeastOf(cols, NumberColumns(cols, types))
  /\ \A role \in {"amount", "quantity"} :
       detected[role] # NoCol => TypeOf(types, detected[role]) = "number"

\* C20: whenever the amount or the quantity role is assigned, the type of
\* the assigned column is number: the scan takes the first column in
\* declaration order whose normalized name contains a stem of the role and
\* whose type is number, skipping the name matches of other types, and an
\* unresolved amount falls back to the first number-typed column or stays
\* unassigned when there is none.
C20_NumberRoles ==
  Len(tables) > 0 => NumberRoles(detectedColumns, columns, columnTypes)

\* The amount role went to a later column because the first column with an
\* amount name is not a number column
C20_Witness ==
  \E i, j \in 1..Len(columns) :
    /\ i < j
    /\ NameMatches("amount", columns[i])
    /\ TypeOf(columnTypes, columns[i]) # "number"
    /\ NameMatches("amount", columns[j])
    /\ detectedColumns.amount = columns[j]

\* No entry without a value in a field stands before an entry with one
NullsLastIn(entries, key) ==
  \A i, j \in 1..Len(entries) :
    (i < j /\ IsNullish(SummaryField(entries[i], key)))
      => IsNullish(SummaryField(entries[j], key))

\* C21: sorting the card summary or the program summary by any of its
\* fields, in either direction, places the entries whose field value is null
\* or undefined after all entries that have a value.
C21_SummaryNullsLast ==
  DashboardShown =>
    \A engine \in Engines :
      /\ NullsLastIn(cardSummaries(engine, tables, dashboardSort), dashboardSort.cards.key)
      /\ NullsLastIn(programSummaries(engine, tables, dashboardSort),
                     dashboardSort.programs.key)

\* The card_id values of the joined rows
CardIdsOf(joined) == {ObjGet(joined[i], "card_id") : i \in 1..Len(joined)}

\* What the card drill-down lists for a card_id
RowsOfCard(ts, cardId) ==
  drilldownDataRaw(ts, [level |-> "card", cardId |-> cardId, programId |-> Null,
                        programName |-> Null])

RECURSIVE SpendOf(_, _)
SpendOf(rows, amountCol) ==
  IF rows = <<>> THEN 0 ELSE AmountOf(Head(rows), amountCol) + SpendOf(Tail(rows), amountCol)

\* One entry per card_id value, each with the count and the amount sum of the
\* rows the drill-down lists for it
OneEntryPerCard(entries, ts, joined) ==
  /\ {entries[i].card_id : i \in 1..Len(entries)} = CardIdsOf(joined)
  /\ Len(entries) = Cardinality(CardIdsOf(joined))
  /\ \A i \in 1..Len(entries) :
       /\ entries[i].transaction_count = Len(RowsOfCard(ts, entries[i].card_id))
       /\ entries[i].total_spend = SpendOf(RowsOfCard(ts, entries[i].card_id),
                                           amountColumn(joined))

\* C22: the card summary has exactly one entry per distinct card_id value of
\* the joined relation (the number 1 and the string "1" are distinct, as the
\* card drill-down distinguishes them); an entry's transaction_count is the
\* number of joined rows the card drill-down lists for its card_id and its
\* total_spend the sum of their amounts.
C22_CardSummary ==
  HasTable(tables, "transactions_joined") =>
    OneEntryPerCard(cardSummariesRaw(tables), tables, TableOf(tables, "transactions_joined"))

\* The same on the dumps whose transactions all have a card_id and no two
\* card_ids with one string form
C22_CardSummaryPlainIds ==
  (/\ HasTable(tables, "transactions_joined")
   /\ Null \notin CardIdsOf(TableOf(tables, "transactions_joined"))
   /\ \A a, b \in CardIdsOf(TableOf(tables, "transactions_joined")) :
        String(a) = String(b) => a = b)
    => OneEntryPerCard(cardSummariesRaw(tables), tables,
                       TableOf(tables, "transactions_joined"))

\* C23: the drill-down cursor only ever moves from the overview to a card,
\* from the overview to a program, or from any level back to the overview;
\* it never moves directly between card and program or from one card or
\* program to another.
C23_DrilldownMoves ==
  [][drilldown' # drilldown =>
       \/ /\ drilldown.level = "overview"
          /\ drilldown'.level = "card"
          /\ drilldown'.programId = Null /\ drilldown'.programName = Null
       \/ /\ drilldown.level = "overview"
          /\ drilldown'.level = "program"
          /\ drilldown'.cardId = Null
       \/ drilldown' = Overview]_vars

\* The cursor is on a program
C23_Witness == drilldown.level = "program" /\ activeView = "dashboard"

\* The records of a delimited text: a field that opens with a double quote
\* runs to the closing one, two double quotes in it standing for one; a comma
\* outside quotes ends a field, a line break outside quotes a record
RECURSIVE DecodeCsv(_, _, _, _, _, _)
DecodeCsv(text, i, records, record, field, inQuotes) ==
  IF i > Len(text) THEN Append(records, Append(record, field))
  ELSE IF inQuotes
  THEN IF text[i] = "\"" /\ i < Len(text) /\ text[i + 1] = "\""
       THEN DecodeCsv(text, i + 2, records, record, Append(field, "\""), TRUE)
       ELSE IF text[i] = "\""
       THEN DecodeCsv(text, i + 1, records, record, field, FALSE)
       ELSE DecodeCsv(text, i + 1, records, record, Append(field, text[i]), TRUE)
  ELSE IF text[i] = "\"" /\ field = <<>>
  THEN DecodeCsv(text, i + 1, records, record, field, TRUE)
  ELSE IF text[i] = ","
  THEN DecodeCsv(text, i + 1, records, Append(record, field), <<>>, FALSE)
  ELSE IF text[i] = "\n"
  THEN DecodeCsv(text, i + 1, Append(records, Append(record, field)), <<>>, <<>>, FALSE)
  ELSE DecodeCsv(text, i + 1, records, record, Append(field, text[i]), FALSE)

\* A decoded field gives the cell back: the same string, the equal number,
\* nothing for a missing value
Recovers(field, cell) ==
  CASE cell.t = "string" -> field = cell.s
    [] cell.t = "number" -> ~NumberStr(field).nan /\ NumberStr(field).n = cell.n
    [] OTHER -> field = <<>>

\* The records after the header are the rows of the view, field by field
RecordsMatch(records, allCols, calcs, view) ==
  /\ Len(records) = Len(view) + 1
  /\ \A i \in 1..Len(view) :
       /\ Len(records[i + 1]) = Len(allCols)
       /\ \A j \in 1..Len(allCols) :
            Recovers(records[i + 1][j], ExportValue(view[i], allCols[j], calcs))

RoundTrips(text, cols, calcs, view) ==
  RecordsMatch(DecodeCsv(text, 1, <<>>, <<>>, <<>>, FALSE), AllCols(cols, calcs), calcs, view)

\* C24: exporting the filtered view to delimited text and splitting and
\* decoding each exported field again recovers, for every cell of every
\* exported row, the same scalar: the identical string for a string cell
\* (strings with commas, double quotes or line breaks and strings that look
\* like numbers or NULL included) and the equal number for a number cell.
C24_ExportRoundTrip ==
  [][download' # download =>
       \E engine \in Engines :
         RoundTrips(download', columns, calculatedColumns, View(engine))]_vars

\* The same for the views without a line break in a cell
C24_ExportRoundTripOneLine ==
  [][(/\ download' # download
      /\ \A i \in 1..Len(data) : \A j \in 1..Len(columns) :
           ObjGet(data[i], columns[j]).t = "string"
             => ~includes(ObjGet(data[i], columns[j]).s, <<"\n">>))
       => \E engine \in Engines :
            RoundTrips(download', columns, calculatedColumns, View(engine))]_vars

HasLog(log, kind) == \E i \in 1..Len(log) : log[i].kind = kind

\* The step has finished the load of what was extracted: no table, and the
\* log has the warning while the tables, the active table, the columns and
\* their types are as before; or tables, and the collection holds them
Finished(extracted) ==
  IF Len(extracted) = 0
  THEN /\ HasLog(parseLog', "noData")
       /\ UNCHANGED <<tables, activeTable, columns, columnTypes>>
  ELSE /\ HasLog(parseLog', "done")
       /\ \A i \in 1..Len(extracted) : HasTable(tables', extracted[i][1])

\* The i-th pending read has completed
Completes(i) ==
  pendingReads' = SubSeq(pendingReads, 1, i - 1) \o SubSeq(pendingReads, i + 1, Len(pendingReads))

\* C25: for any SQL text a load finishes without an error state; when the
\* extraction yields no table, the diagnostic log is replaced by a log with
\* the no-data warning and the table collection, the active table, the
\* columns and the column types stay as they were.
C25_LoadAlwaysFinishes ==
  [][/\ (~sqlPasteInput.empty /\ sqlPasteInput'.empty)
          => Finished(parseSQLFile(Statements(sqlPasteInput)).tables)
     /\ \A i \in 1..Len(pendingReads) :
          (Completes(i) /\ pendingReads[i].ext = "sql")
            => Finished(parseSQLFile(pendingReads[i].content).tables)]_vars

\* The same for the texts that name no table constructor or __proto__
C25_LoadFinishesPlainNames ==
  [][/\ (~sqlPasteInput.empty /\ sqlPasteInput'.empty)
          => Finished(parseSQLFile(Statements(sqlPasteInput)).tables)
     /\ \A i \in 1..Len(pendingReads) :
          (Completes(i) /\ pendingReads[i].ext = "sql" /\ ~ParseRaises(pendingReads[i].content))
            => Finished(parseSQLFile(pendingReads[i].content).tables)]_vars

\* C27: the join emits the log line stating that all transactions matched to
\* cards and programs only when every transaction resolved both its card and
\* its program; whenever some transaction's program did not resolve, the
\* line is not emitted.
C27_AllMatchedLine ==
  (JoinLoaded /\ HasLog(parseLog, "allMatched"))
    => \A i \in 1..Len(Txns) : Resolved(i)

\* The line is emitted only when every transaction resolved its card
C27_AllMatchedCards ==
  (JoinLoaded /\ HasLog(parseLog, "allMatched"))
    => \A i \in 1..Len(Txns) : HasCard(i)

\* The i-th request in flight has been answered and no request was sent
Answered(i) ==
  fetches' = SubSeq(fetches, 1, i - 1) \o SubSeq(fetches, i + 1, Len(fetches))

\* The one message a failed fetch is to leave: the CORS/network message for
\* a failure of fetch itself, the HTTP or the empty-response message else
FailureMessage(response) ==
  CASE response.kind = "rejected" -> CorsMessage
    [] response.kind = "notOk" -> HttpMessage
    [] OTHER -> EmptyMessage

\* C26: every URL fetch that fails (network error, non-OK HTTP status or
\* empty body) ends in a state where isLoading is false, loadError holds
\* exactly one message (the CORS/network message for fetch-level failures,
\* the HTTP or empty-response message otherwise), the table collection is
\* unchanged and no further request is issued without a new user trigger.
C26_FailedFetch ==
  [][\A i \in 1..Len(fetches) :
       (Answered(i) /\ fetches[i].response.kind \in {"rejected", "notOk", "empty"})
         => /\ isLoading' = FALSE
            /\ loadError' = FailureMessage(fetches[i].response)
            /\ tables' = tables]_vars

\* The same for the rejections whose message names a failed fetch or a
\* network error
C26_FailedFetchNamedMessages ==
  [][\A i \in 1..Len(fetches) :
       (/\ Answered(i)
        /\ fetches[i].response.kind \in {"rejected", "notOk", "empty"}
        /\ fetches[i].response.message # WebKitMessage)
         => /\ isLoading' = FALSE
            /\ loadError' = FailureMessage(fetches[i].response)
            /\ tables' = tables]_vars

\* C28: for any interleaving of URL-fetch triggers (button click or Enter
\* key in the URL box) and fetch completions, isLoading is true in every
\* state in which at least one fetch is still in flight.
C28_LoadingWhileInFlight == Len(fetches) > 0 => isLoading

\* C29: in every reachable state, also when a file upload is started while
\* a table is displayed and the calculated column is added before the read
\* completes, an ext_total column computes its product from the
\* quantity-role and amount-role columns of the active table.
C29_ExtTotalOfActiveTable ==
  \A i \in 1..Len(calculatedColumns) :
    calculatedColumns[i].name = "ext_total"
      => /\ calculatedColumns[i].qtyCol = detectedColumns.quantity
         /\ calculatedColumns[i].priceCol = detectedColumns.amount

\* C30: in every reachable state with a table loaded, activeView =
\* 'dashboard' implies that transactions_joined is in the table collection,
\* so one of the dashboard, table and charts views is rendered.
C30_DashboardHasJoin ==
  (Len(tables) > 0 /\ activeView = "dashboard") => HasTable(tables, "transactions_joined")

====
